---- MODULE Spec2Model ----
(***************************************************************************)
(* A model of the tax-filing backend: the auth middleware, the auth router *)
(* (signup, login, profile) and the dashboard router (dependents, uploads) *)
(* over the User and Dependent tables and the two upload directories.      *)
(*                                                                         *)
(* A request occupies a connection slot r.  Its handler runs in the steps  *)
(* the code's awaits allow: the auth middleware is one step, the route     *)
(* handler the next; signup is split at the await between its existence    *)
(* check and its create.                                                   *)
(***************************************************************************)
EXTENDS Integers, Sequences, FiniteSets, TLC

VARIABLES
    now,        \* the server clock (Date.now()), in days
    users,      \* the Users table: id -> row
    nextId,     \* the next fresh user id (ids are UUIDs, never reused)
    dependents, \* the dependents table: id -> row
    nextDep,    \* the next fresh dependent id
    w9Files,    \* uploads/w9-forms: the pairs <<file name, content>> on disk
    w2Files,    \* uploads/w2-forms: the pairs <<file name, content>> on disk
    pc,         \* per connection: where its request stands
    req,        \* per connection: the request (op, header, body, params, file)
    ctx,        \* per connection: req.user as attached by the auth middleware
    resp,       \* per connection: the response sent (status 0: none yet)
    loaded,     \* per connection: the User instance its handler loaded (findByPk)
    dbReady,    \* server.js: the readiness flag
    dbInit,     \* server.js: where initializeDatabase stands
    stack,      \* the app's middleware stack, in the order of registration
    db          \* database.js: NODE_ENV, where connectDB stands, what it ran

vars == <<now, users, nextId, dependents, nextDep, w9Files, w2Files,
          pc, req, ctx, resp, loaded, dbReady, dbInit, stack, db>>

store == <<users, nextId, dependents, nextDep, w9Files, w2Files>>

app == <<dbReady, dbInit, stack, db>>

----------------------------------------------------------------------------
(* Bounds of the model *)

MaxTime == 8
MaxUsers == 2
MaxReq == 2
MaxDeps == 2
MaxRand == 1
MaxFiles == 2

(* Program constants *)

ExpiresIn == 7
MinPasswordLen == 6
FileSizeLimit == 5 * 1024 * 1024

Conn == 1..MaxReq

NullDate == -1
NullStr == "null"

----------------------------------------------------------------------------
(* Strings the code inspects are sequences of characters *)

Contains(s, pat) ==
    \E i \in 1..(Len(s) - Len(pat) + 1) : SubSeq(s, i, i + Len(pat) - 1) = pat

----------------------------------------------------------------------------
(* Request inputs *)

\* express-validator isEmail(): the addresses of the model and one non-address
isEmail(e) == e \in {"a@x.com", "A@x.com", "b@x.com"}

\* express-validator normalizeEmail(): lower-cases the address
normalizeEmail(e) == IF e = "A@x.com" THEN "a@x.com" ELSE e

\* express-validator trim()
trim(s) ==
    CASE s = " Ann " -> "Ann"
      [] s = " Acme " -> "Acme"
      [] s = " Bank " -> "Bank"
      [] OTHER -> s

Pw1 == <<"s", "e", "c", "r", "e", "t">>
Pw2 == <<"h", "u", "n", "t", "e", "r", "2">>
PwShort == <<"a", "b", "c">>
PwEmpty == <<>>

\* bcryptjs hash(password, 12) and compare(password, hash)
bcryptHash(p) == <<"$2a$12$">> \o p
bcryptCompare(p, h) == h = bcryptHash(p)

jwtSignOneDay(uid, email) ==
    [kind |-> "jwt", userId |-> uid, email |-> email, iat |-> now,
     exp |-> now + 1, sig |-> TRUE]

\* jsonwebtoken sign({userId, email}, secret, {expiresIn: '7d'})
jwtSign(uid, email) ==
    [kind |-> "jwt", userId |-> uid, email |-> email, iat |-> now,
     exp |-> now + ExpiresIn, sig |-> TRUE]

\* a string that is no JWT, and the empty string
GarbageToken ==
    [kind |-> "garbage", userId |-> 0, email |-> "", iat |-> 0, exp |-> 0, sig |-> FALSE]
EmptyToken ==
    [kind |-> "empty", userId |-> 0, email |-> "", iat |-> 0, exp |-> 0, sig |-> FALSE]

\* a well-formed token signed with another key
Forged(t) == [t EXCEPT !.sig = FALSE]

\* the tokens a client holds: those login returned to it and those it last sent
issued ==
    {resp[r].body.token : r \in {c \in 1..MaxReq : "token" \in DOMAIN resp[c].body}} \cup
    {req[r].hdr.tok : r \in {c \in 1..MaxReq : req[c].hdr.tok.kind = "jwt" /\ req[c].hdr.tok.sig}}

\* what a client can put after "Bearer ", or send as the whole header value
ClientTokens == {GarbageToken, EmptyToken} \cup issued \cup {Forged(t) : t \in issued}

NoHeader == [present |-> FALSE, bearer |-> FALSE, tok |-> EmptyToken]
Headers == {NoHeader} \cup
           {[present |-> TRUE, bearer |-> b, tok |-> t] : b \in BOOLEAN, t \in ClientTokens}

NoBody == [none |-> TRUE]
NoFile == [present |-> FALSE, originalname |-> <<>>, mimetype |-> <<>>, size |-> 0,
           content |-> "-"]
NoReq == [op |-> "none", hdr |-> NoHeader, body |-> NoBody, id |-> 0, file |-> NoFile]
NoCtx == [userId |-> 0, email |-> "", firstName |-> "", lastName |-> ""]
NoResp == [status |-> 0, body |-> NoBody]
NoRow == [none |-> TRUE]

\* connectDB is not running (it has resolved, or has not been called)
NoConnect == [env |-> "development", pc |-> "return", error |-> "none", forced |-> FALSE]

----------------------------------------------------------------------------
(* The tables; Init is the app with its routers mounted and the store connected *)

\* JSON values: a key that is absent, a number (amounts in thousandths of a dollar),
\* a string, a date
Undefined == [undef |-> TRUE]
Num(n) == [num |-> n]
Str(s) == [str |-> s]
Date(t) == [date |-> t]

\* the default {} of the JSONB columns income and deductions, by the keys the
\* routes write and one key each of the column's own example
NoIncome == [w2Data |-> Undefined, lastW2Extraction |-> Undefined, otherIncome |-> Undefined]
NoDeductions ==
    [form1098 |-> Undefined, last1098Generation |-> Undefined,
     studentLoanInterest |-> Undefined]

\* the default {} of the JSONB column address
EmptyAddress == "{}"

\* User.create(): the columns signup sets, the model's defaults for the rest
NewUser(email, hash, firstName, lastName) ==
    [email |-> email, password |-> hash, firstName |-> firstName, lastName |-> lastName,
     filingStatus |-> NullStr, ssn |-> NullStr, address |-> EmptyAddress,
     income |-> NoIncome, deductions |-> NoDeductions,
     w9Uploaded |-> FALSE, w9UploadDate |-> NullDate, w9FileName |-> <<>>,
     w2Uploaded |-> FALSE, w2UploadDate |-> NullDate, w2FileName |-> <<>>,
     formCompletionStatus |-> "not_started", lastLogin |-> NullDate]

Put(table, id, row) ==
    [i \in DOMAIN table \cup {id} |-> IF i = id THEN row ELSE table[i]]

Drop(table, ids) == [i \in DOMAIN table \ ids |-> table[i]]

\* User.findOne({ where: { email } }): the ids of the rows with that email
findByEmail(email) == {u \in DOMAIN users : users[u].email = email}

\* User.findByPk(id)
userExists(id) == id \in DOMAIN users

Init ==
    /\ now = 0
    /\ users = [i \in {} |-> 0]
    /\ nextId = 1
    /\ dependents = [i \in {} |-> 0]
    /\ nextDep = 1
    /\ w9Files = {}
    /\ w2Files = {}
    /\ pc = [r \in Conn |-> "idle"]
    /\ req = [r \in Conn |-> NoReq]
    /\ ctx = [r \in Conn |-> NoCtx]
    /\ resp = [r \in Conn |-> NoResp]
    /\ loaded = [r \in Conn |-> NoRow]
    /\ dbReady = TRUE
    /\ dbInit = "done"
    /\ stack = <<"cors", "auth", "dashboard", "health", "error", "notFound">>
    /\ db = NoConnect

Free(r) == pc[r] \in {"idle", "done"}

\* res.status(s).json(b) ends the request on connection r
Reply(r, status, body) ==
    /\ resp' = [resp EXCEPT ![r] = [status |-> status, body |-> body]]
    /\ pc' = [pc EXCEPT ![r] = "done"]

ValidationFailedNoErrors == [success |-> FALSE, message |-> "Validation failed"]

\* the answer to a request whose body fails the route's validators
ValidationFailed == [success |-> FALSE, message |-> "Validation failed", errors |-> TRUE]

\* the server clock advances
Tick ==
    /\ now < MaxTime
    /\ now' = now + 1
    /\ UNCHANGED <<store, pc, req, ctx, resp, loaded, app>>

\* a user row is deleted in the store; the foreign key cascades to its dependents
DeleteUser(u) ==
    /\ u \in DOMAIN users
    /\ users' = Drop(users, {u})
    /\ dependents' = Drop(dependents, {d \in DOMAIN dependents : dependents[d].userId = u})
    /\ UNCHANGED <<now, nextId, nextDep, w9Files, w2Files, pc, req, ctx, resp, loaded, app>>

----------------------------------------------------------------------------
(* middleware/auth.js *)

\* jwt.verify(token, secret): the error it throws, or "ok"
jwtDecodeOnly(tok) == IF tok.kind # "jwt" THEN "JsonWebTokenError" ELSE "ok"

jwtVerify(tok) ==
    IF tok.kind # "jwt" \/ ~tok.sig THEN "JsonWebTokenError"
    ELSE IF now >= tok.exp THEN "TokenExpiredError"
    ELSE "ok"

\* the header value is falsy: no header, or an empty one
headerMissing(hdr) == ~hdr.present \/ (~hdr.bearer /\ hdr.tok.kind = "empty")

\* actualToken: the header value, less a leading 'Bearer '
actualToken(hdr) == hdr.tok

\* the branch of auth a header takes
authOutcome(hdr) ==
    IF headerMissing(hdr) THEN "missing"
    ELSE IF actualToken(hdr).kind = "empty" THEN "format"
    ELSE IF jwtVerify(actualToken(hdr)) = "JsonWebTokenError" THEN "invalid"
    ELSE IF jwtVerify(actualToken(hdr)) = "TokenExpiredError" THEN "expired"
    ELSE IF ~userExists(actualToken(hdr).userId) THEN "stale"
    ELSE "verified"

authMessage(out) ==
    CASE out = "missing" -> "No token provided, authorization denied"
      [] out = "format" -> "Invalid token format"
      [] out = "invalid" -> "Invalid token"
      [] out = "expired" -> "Token expired"
      [] out = "stale" -> "User not found, token invalid"

Fail(msg) == [success |-> FALSE, message |-> msg]

authRejectNoExpiredBranch(out) ==
    IF out = "expired"
      THEN [status |-> 500, body |-> Fail("Server error in authentication")]
      ELSE [status |-> 401, body |-> Fail(authMessage(out))]

\* the response of each rejecting branch
authReject(out) == [status |-> 401, body |-> Fail(authMessage(out))]

\* req.user as auth attaches it
authContext(hdr) ==
    LET uid == actualToken(hdr).userId IN
    [userId |-> uid, email |-> users[uid].email,
     firstName |-> users[uid].firstName, lastName |-> users[uid].lastName]

\* a request for a protected route arrives on r and passes through auth
auth(r, op, hdr, body, id, file) ==
    /\ Free(r)
    /\ req' = [req EXCEPT ![r] = [op |-> op, hdr |-> hdr, body |-> body, id |-> id,
                                  file |-> file]]
    /\ IF authOutcome(hdr) = "verified"
         THEN /\ ctx' = [ctx EXCEPT ![r] = authContext(hdr)]
              /\ pc' = [pc EXCEPT ![r] = op]
              /\ resp' = [resp EXCEPT ![r] = NoResp]
         ELSE /\ ctx' = [ctx EXCEPT ![r] = NoCtx]
              /\ Reply(r, authReject(authOutcome(hdr)).status,
                          authReject(authOutcome(hdr)).body)
    /\ UNCHANGED <<now, store, loaded, app>>

----------------------------------------------------------------------------
(* routes/auth.js *)

SignupBodies ==
    {[email |-> "a@x.com", password |-> Pw1], [email |-> "A@x.com", password |-> Pw1],
     [email |-> "b@x.com", password |-> Pw2, firstName |-> " Ann "],
     [email |-> "nope", password |-> Pw1], [email |-> "a@x.com", password |-> PwShort]}

LoginBodies ==
    {[email |-> "a@x.com", password |-> Pw1], [email |-> "A@x.com", password |-> Pw2],
     [email |-> "b@x.com", password |-> Pw1], [email |-> "a@x.com", password |-> PwEmpty],
     [email |-> "nope", password |-> Pw1]}

Field(body, f, default) == IF f \in DOMAIN body THEN body[f] ELSE default

publicUserWholeRow(id, row) ==
    [id |-> id, email |-> row.email, firstName |-> row.firstName,
     lastName |-> row.lastName, password |-> row.password]

\* the public subset signup and login return
publicUser(id, row) ==
    [id |-> id, email |-> row.email, firstName |-> row.firstName,
     lastName |-> row.lastName]

\* POST /signup up to the await of User.findOne
signupCheck(r, body) ==
    /\ Free(r)
    /\ ctx' = [ctx EXCEPT ![r] = NoCtx]
    /\ LET email == normalizeEmail(body.email)
           clean == [email |-> email, password |-> body.password,
                     firstName |-> trim(Field(body, "firstName", "")),
                     lastName |-> trim(Field(body, "lastName", ""))]
       IN  /\ req' = [req EXCEPT ![r] = [NoReq EXCEPT !.op = "signup", !.body = clean]]
           /\ IF ~isEmail(body.email) \/ Len(body.password) < MinPasswordLen
                THEN Reply(r, 400, ValidationFailed)
              ELSE IF findByEmail(email) # {}
                THEN Reply(r, 400, Fail("User with this email already exists"))
              ELSE /\ nextId <= MaxUsers
                   /\ pc' = [pc EXCEPT ![r] = "signup"]
                   /\ resp' = [resp EXCEPT ![r] = NoResp]
    /\ UNCHANGED <<now, store, loaded, app>>

\* POST /signup from bcrypt.hash on: User.create under the unique index on email
signupCreate(r) ==
    /\ pc[r] = "signup"
    /\ nextId <= MaxUsers
    /\ LET b == req[r].body
           row == NewUser(b.email, bcryptHash(b.password), b.firstName, b.lastName)
       IN  IF findByEmail(b.email) # {}
             THEN /\ Reply(r, 500, Fail("Server error during registration"))
                  /\ UNCHANGED <<users, nextId>>
             ELSE /\ users' = Put(users, nextId, row)
                  /\ nextId' = nextId + 1
                  /\ Reply(r, 201, [success |-> TRUE,
                                    message |-> "User registered successfully",
                                    user |-> publicUser(nextId, row)])
    /\ UNCHANGED <<now, dependents, nextDep, w9Files, w2Files, req, ctx, loaded, app>>

loginNoUserNamed == Fail("No account with this email")

\* the response to a login that finds no user, and to one whose password differs
loginNoUser == Fail("Invalid email or password")
loginBadPassword == Fail("Invalid email or password")

\* POST /login
login(r, body) ==
    /\ Free(r)
    /\ ctx' = [ctx EXCEPT ![r] = NoCtx]
    /\ LET email == normalizeEmail(body.email)
           found == findByEmail(email)
       IN  /\ req' = [req EXCEPT ![r] = [NoReq EXCEPT !.op = "login",
                          !.body = [email |-> email, password |-> body.password]]]
           /\ IF ~isEmail(body.email) \/ body.password = <<>>
                THEN /\ Reply(r, 400, ValidationFailed)
                     /\ UNCHANGED users
              ELSE IF found = {}
                THEN /\ Reply(r, 400, loginNoUser)
                     /\ UNCHANGED users
              ELSE LET u == CHOOSE x \in found : TRUE IN
                   IF ~bcryptCompare(body.password, users[u].password)
                     THEN /\ Reply(r, 400, loginBadPassword)
                          /\ UNCHANGED users
                     ELSE /\ users' = [users EXCEPT ![u].lastLogin = now]
                          /\ Reply(r, 200, [success |-> TRUE, message |-> "Login successful",
                                            token |-> jwtSign(u, users[u].email),
                                            user |-> publicUser(u, users[u])])
    /\ UNCHANGED <<now, nextId, dependents, nextDep, w9Files, w2Files, loaded, app>>

\* GET /profile, after auth
profile(r) ==
    /\ pc[r] = "profile"
    /\ LET u == ctx[r].userId IN
       IF ~userExists(u)
         THEN Reply(r, 404, Fail("User not found"))
         ELSE Reply(r, 200, [success |-> TRUE,
                  user |-> [id |-> u, email |-> users[u].email,
                            firstName |-> users[u].firstName,
                            lastName |-> users[u].lastName,
                            filingStatus |-> users[u].filingStatus,
                            w9Uploaded |-> users[u].w9Uploaded,
                            formCompletionStatus |-> users[u].formCompletionStatus,
                            lastLogin |-> users[u].lastLogin]])
    /\ UNCHANGED <<now, store, req, ctx, loaded, app>>

----------------------------------------------------------------------------
(* routes/dashboard.js: dependents *)

\* express-validator isISO8601() (not strict: the pattern, not the calendar)
isISO8601(d) == d \in {"2015-01-02", "2015-02-30"}

\* a date of the calendar
ValidDate(d) == d = "2015-01-02"

Dobs == {"2015-01-02", "2015-02-30", "yesterday"}

DependentBodies ==
    {[name |-> "Kid", relationship |-> "child"], [name |-> "Kid"],
     [name |-> "", relationship |-> "child"], [relationship |-> "child"]} \cup
    {[name |-> "Kid", relationship |-> "child", dob |-> d] : d \in Dobs} \cup
    {[name |-> "Kid", relationship |-> "child", dob |-> "2015-01-02",
      ssn |-> "111-22-3333"]}

\* the Dependent model's attributes with allowNull: false
dependentNotNull == {"userId", "name", "relationship"}

\* Dependent.create(values): the attributes of the model that values sets; a key
\* that is no attribute of the model (dob) is dropped
dependentRow(uid, body) ==
    [userId |-> uid,
     name |-> body.name,
     relationship |-> Field(body, "relationship", NullStr),
     ssn |-> Field(body, "ssn", NullStr),
     birthDate |-> NullStr,
     createdAt |-> now]

\* the notNull validation of Dependent.create
dependentRowValid(row) ==
    \A a \in dependentNotNull :
        IF a = "userId" THEN row.userId # 0 ELSE row[a] # NullStr

findDependentByIdOnly(id, uid) == {d \in DOMAIN dependents : d = id}

\* Dependent.findOne({ where: { id, userId } })
findDependent(id, uid) ==
    {d \in DOMAIN dependents : d = id /\ dependents[d].userId = uid}

\* the sequences that list the set S of dependent ids by createdAt ascending
RECURSIVE Orders(_)
Orders(S) ==
    IF S = {} THEN {<<>>}
    ELSE UNION {{<<d>> \o t : t \in Orders(S \ {d})} :
                d \in {x \in S : \A y \in S : dependents[x].createdAt <= dependents[y].createdAt}}

\* GET /dependents, after auth
getDependents(r) ==
    /\ pc[r] = "getDependents"
    /\ \E order \in Orders({d \in DOMAIN dependents : dependents[d].userId = ctx[r].userId}) :
          Reply(r, 200, [list |-> [i \in 1..Len(order) |->
                                      [id |-> order[i], row |-> dependents[order[i]]]]])
    /\ UNCHANGED <<now, store, req, ctx, loaded, app>>

\* POST /dependents, after auth
addDependent(r) ==
    /\ pc[r] = "addDependent"
    /\ nextDep <= MaxDeps
    /\ LET b == req[r].body
           row == dependentRow(ctx[r].userId, b)
       IN  IF \/ "name" \notin DOMAIN b \/ b.name = ""
              \/ ("dob" \in DOMAIN b /\ ~isISO8601(b.dob))
             THEN /\ Reply(r, 400, ValidationFailed)
                  /\ UNCHANGED <<dependents, nextDep>>
           ELSE IF ~dependentRowValid(row)
             THEN /\ Reply(r, 500, Fail("Server error"))
                  /\ UNCHANGED <<dependents, nextDep>>
           ELSE /\ dependents' = Put(dependents, nextDep, row)
                /\ nextDep' = nextDep + 1
                /\ Reply(r, 201, [success |-> TRUE,
                                  message |-> "Dependent added successfully",
                                  id |-> nextDep, userId |-> row.userId,
                                  name |-> row.name, relationship |-> row.relationship,
                                  ssn |-> row.ssn])
    /\ UNCHANGED <<now, users, nextId, w9Files, w2Files, req, ctx, loaded, app>>

\* DELETE /dependents/:id, after auth
deleteDependent(r) ==
    /\ pc[r] = "deleteDependent"
    /\ IF findDependent(req[r].id, ctx[r].userId) = {}
         THEN /\ Reply(r, 404, Fail("Dependent not found"))
              /\ UNCHANGED dependents
         ELSE /\ dependents' = Drop(dependents, findDependent(req[r].id, ctx[r].userId))
              /\ Reply(r, 200, [success |-> TRUE,
                                message |-> "Dependent removed successfully"])
    /\ UNCHANGED <<now, users, nextId, nextDep, w9Files, w2Files, req, ctx, loaded, app>>

----------------------------------------------------------------------------
(* The auth router and the middleware, with the clock and the store's deletes *)

\* the connection of the specifications that take one request at a time
One == {1}

AuthSignupBodies == {[email |-> e, password |-> Pw1] : e \in {"a@x.com", "b@x.com"}}
AuthLoginBodies == {[email |-> e, password |-> Pw1] : e \in {"a@x.com", "b@x.com"}}

NextAuth ==
    \/ Tick
    \/ \E u \in 1..MaxUsers : DeleteUser(u)
    \/ \E r \in One, b \in AuthSignupBodies : signupCheck(r, b)
    \/ \E r \in One : signupCreate(r)
    \/ \E r \in One, b \in AuthLoginBodies : login(r, b)
    \/ \E r \in One, h \in Headers : auth(r, "profile", h, NoBody, 0, NoFile)
    \/ \E r \in One, h \in Headers : auth(r, "getDependents", h, NoBody, 0, NoFile)
    \/ \E r \in One : profile(r)
    \/ \E r \in One : getDependents(r)

SpecAuth == Init /\ [][NextAuth]_vars

----------------------------------------------------------------------------
(* Claims about the auth middleware, under SpecAuth *)

ProtectedOps == {"profile", "getDependents", "addDependent", "deleteDependent",
                 "uploadW9", "uploadW2", "getMe", "updateMe", "extractW2", "getW2Data", "updateW2",
                 "generate1098", "get1098Data", "update1098", "download1098"}

\* a request arrives on r in this step
Arrives(r) == Free(r) /\ (req'[r] # req[r] \/ resp'[r] # resp[r] \/ pc'[r] # pc[r])

\* the header carries a token login signed, not yet expired, of a user in the store
TokenGood(hdr) ==
    /\ hdr.present
    /\ hdr.tok.kind = "jwt"
    /\ hdr.tok.sig
    /\ now < hdr.tok.exp
    /\ hdr.tok.userId \in DOMAIN users

\* C1: a protected handler runs only for a request whose token auth verified and
\* whose user it re-loaded, and then req.user.userId is the userId signed in the
\* token; a request auth rejects never reaches its handler and changes nothing stored.
C1_HandlerOnlyAfterVerification ==
    [][\A r \in Conn :
        /\ (Arrives(r) /\ req'[r].op \in ProtectedOps) =>
              /\ store' = store
              /\ IF TokenGood(req'[r].hdr)
                   THEN pc'[r] = req'[r].op /\ ctx'[r].userId = req'[r].hdr.tok.userId
                   ELSE pc'[r] = "done" /\ resp'[r].status = 401 /\ ctx'[r] = NoCtx
        /\ (pc'[r] \in ProtectedOps /\ pc[r] # pc'[r]) => Arrives(r)
        /\ (pc[r] \in ProtectedOps) =>
              /\ ctx[r].userId = req[r].hdr.tok.userId
              /\ req[r].hdr.tok.sig
       ]_vars

C1_Witness ==
    \E r \in Conn :
        /\ req[r].op = "profile" /\ pc[r] = "done" /\ resp[r].status = 200
        /\ resp[r].body.user.id = req[r].hdr.tok.userId
        /\ req[r].hdr.tok.userId = 2

\* C2: a token login issued is accepted while fewer than 7 days have passed since
\* its issue and its user exists, rejected 401 'Token expired' from 7 days on, and
\* rejected 401 'User not found, token invalid' when its user has been deleted.
C2_TokenLifetime ==
    [][\A r \in Conn :
        (Arrives(r) /\ req'[r].op \in ProtectedOps /\ req'[r].hdr.present
            /\ req'[r].hdr.tok.kind = "jwt" /\ req'[r].hdr.tok.sig) =>
          LET tok == req'[r].hdr.tok IN
          IF now >= tok.iat + 7
            THEN resp'[r] = [status |-> 401, body |-> Fail("Token expired")]
          ELSE IF tok.userId \notin DOMAIN users
            THEN resp'[r] = [status |-> 401, body |-> Fail("User not found, token invalid")]
          ELSE pc'[r] = req'[r].op /\ resp'[r].status = 0
       ]_vars

C2_Witness ==
    \E r \in Conn :
        /\ req[r].hdr.tok.sig /\ req[r].hdr.tok.userId \in DOMAIN users
        /\ now = req[r].hdr.tok.iat + 7
        /\ resp[r] = [status |-> 401, body |-> Fail("Token expired")]

C2_WitnessStale ==
    \E r \in Conn :
        /\ req[r].hdr.tok.sig /\ now < req[r].hdr.tok.iat + 7
        /\ resp[r] = [status |-> 401, body |-> Fail("User not found, token invalid")]

\* the causes of a rejection, read off the header
HeaderAbsent(hdr) == ~hdr.present
Unparsable(hdr) == hdr.present /\ hdr.tok.kind = "garbage"
BadSignature(hdr) == hdr.present /\ hdr.tok.kind = "jwt" /\ ~hdr.tok.sig
PastExpiry(hdr) == hdr.present /\ hdr.tok.kind = "jwt" /\ hdr.tok.sig /\ now >= hdr.tok.exp

\* C3 as stated: the four causes have four distinct outcomes, MissingToken 'No token
\* provided, authorization denied', MalformedToken 'Invalid token format', ExpiredToken
\* 'Token expired' and InvalidToken 'Invalid token', all 401, and only a header value
\* of the form 'Bearer <token>' is accepted.
C3_Original ==
    [][\A r \in Conn :
        (Arrives(r) /\ req'[r].op \in ProtectedOps) =>
          LET h == req'[r].hdr
              m == resp'[r].body.message IN
          /\ HeaderAbsent(h) =>
                resp'[r].status = 401 /\ m = "No token provided, authorization denied"
          /\ Unparsable(h) => resp'[r].status = 401 /\ m = "Invalid token format"
          /\ PastExpiry(h) => resp'[r].status = 401 /\ m = "Token expired"
          /\ BadSignature(h) => resp'[r].status = 401 /\ m = "Invalid token"
          /\ pc'[r] = req'[r].op => h.bearer
       ]_vars

\* C3 as amended: each of the four causes is answered 401; an absent header gets
\* 'No token provided, authorization denied', an expired token 'Token expired', and
\* an unparsable token gets the same 'Invalid token' as a signature mismatch
\* ('Invalid token format' is kept for a 'Bearer ' prefix with nothing after it);
\* a good token is accepted with or without the 'Bearer ' prefix.
C3_RejectionCauses ==
    [][\A r \in Conn :
        (Arrives(r) /\ req'[r].op \in ProtectedOps) =>
          LET h == req'[r].hdr
              m == resp'[r].body.message IN
          /\ HeaderAbsent(h) =>
                resp'[r].status = 401 /\ m = "No token provided, authorization denied"
          /\ (Unparsable(h) \/ BadSignature(h)) =>
                resp'[r].status = 401 /\ m = "Invalid token"
          /\ PastExpiry(h) => resp'[r].status = 401 /\ m = "Token expired"
          /\ (h.present /\ h.bearer /\ h.tok.kind = "empty") =>
                resp'[r].status = 401 /\ m = "Invalid token format"
          /\ TokenGood(h) => pc'[r] = req'[r].op
       ]_vars

C3_Witness ==
    \E r \in Conn :
        /\ req[r].op = "profile" /\ pc[r] = "done"
        /\ Unparsable(req[r].hdr) /\ req[r].hdr.bearer
        /\ resp[r] = [status |-> 401, body |-> Fail("Invalid token")]

C3_WitnessRawAccepted ==
    \E r \in Conn :
        /\ req[r].op = "profile" /\ ~req[r].hdr.bearer /\ resp[r].status = 200

----------------------------------------------------------------------------
(* The auth router alone, requests on every connection interleaving *)

NextSignup ==
    \/ \E r \in Conn, b \in SignupBodies : signupCheck(r, b)
    \/ \E r \in Conn : signupCreate(r)
    \/ \E r \in Conn, b \in LoginBodies : login(r, b)

SpecSignup == Init /\ [][NextSignup]_vars

\* the body passes the route's validators (req holds the sanitized body)
SignupValid(b) == isEmail(b.email) /\ Len(b.password) >= 6
LoginValid(b) == isEmail(b.email) /\ b.password # <<>>

\* C4: the user object of every 201 signup response has no password field, and a
\* signup that starts when a user with the same email exists is answered 400 'User
\* with this email already exists' and creates no second row for that email.
C4_SignupNoPasswordNoDuplicate ==
    [][\A r \in Conn :
        /\ (pc[r] = "signup" /\ resp'[r].status = 201) =>
              /\ "password" \notin DOMAIN resp'[r].body.user
              /\ resp'[r].body.user.email = users'[resp'[r].body.user.id].email
        /\ (Arrives(r) /\ req'[r].op = "signup" /\ SignupValid(req'[r].body)
              /\ \E u \in DOMAIN users : users[u].email = req'[r].body.email) =>
              /\ resp'[r] = [status |-> 400,
                             body |-> Fail("User with this email already exists")]
              /\ users' = users
        /\ \A u, v \in DOMAIN users' : users'[u].email = users'[v].email => u = v
       ]_vars

C4_Witness ==
    \E r \in Conn :
        /\ req[r].op = "signup"
        /\ resp[r] = [status |-> 400, body |-> Fail("User with this email already exists")]
        /\ Cardinality({u \in DOMAIN users : users[u].email = req[r].body.email}) = 1
        /\ \E q \in Conn : resp[q].status = 201 /\ resp[q].body.user.email = req[r].body.email

\* why a finished login on r would fail now (users are never removed and passwords
\* never change under SpecSignup, so a cause that holds now held when r was answered
\* unless the account did not exist yet)
NoSuchUser(b) == \A u \in DOMAIN users : users[u].email # b.email
WrongPassword(b) ==
    \E u \in DOMAIN users : users[u].email = b.email /\ users[u].password # bcryptHash(b.password)

\* C5: a valid login for an email with no account and a valid login with a wrong
\* password for an existing account get the same status and the same message, and
\* neither changes a stored user; lastLogin changes only in a successful login.
C5_LoginEnumerationResistance ==
    [][\A r \in Conn :
        /\ (Arrives(r) /\ req'[r].op = "login" /\ LoginValid(req'[r].body)
              /\ (NoSuchUser(req'[r].body) \/ WrongPassword(req'[r].body))) =>
              /\ users' = users
              /\ resp'[r].status # 200
              /\ \A q \in Conn \ {r} :
                    (pc[q] = "done" /\ req[q].op = "login" /\ LoginValid(req[q].body)
                       /\ resp[q].status # 200
                       /\ (NoSuchUser(req[q].body) \/ WrongPassword(req[q].body))) =>
                    /\ resp'[r].status = resp[q].status
                    /\ resp'[r].body.message = resp[q].body.message
        /\ \A u \in DOMAIN users :
              users'[u].lastLogin # users[u].lastLogin =>
                 \E q \in Conn : Arrives(q) /\ req'[q].op = "login" /\ resp'[q].status = 200
                                  /\ resp'[q].body.user.id = u
       ]_vars

C5_Witness ==
    \E r, q \in Conn :
        /\ req[r].op = "login" /\ req[q].op = "login" /\ pc[r] = "done" /\ pc[q] = "done"
        /\ LoginValid(req[r].body) /\ LoginValid(req[q].body)
        /\ NoSuchUser(req[r].body) /\ WrongPassword(req[q].body)
        /\ resp[r] = resp[q] /\ resp[r].status = 400

----------------------------------------------------------------------------
(* The dependents routes behind the middleware *)

\* the headers of a client that sends a token it holds as 'Bearer <token>'
BearerHeaders == {[present |-> TRUE, bearer |-> TRUE, tok |-> t] : t \in issued}

NextDeps ==
    \/ \E r \in One, b \in AuthSignupBodies : signupCheck(r, b)
    \/ \E r \in One : signupCreate(r)
    \/ \E r \in One, b \in AuthLoginBodies : login(r, b)
    \/ \E r \in One, h \in BearerHeaders : auth(r, "getDependents", h, NoBody, 0, NoFile)
    \/ \E r \in One, h \in BearerHeaders, b \in DependentBodies :
          auth(r, "addDependent", h, b, 0, NoFile)
    \/ \E r \in One, h \in BearerHeaders, d \in 1..MaxDeps :
          auth(r, "deleteDependent", h, NoBody, d, NoFile)
    \/ \E r \in One : getDependents(r)
    \/ \E r \in One : addDependent(r)
    \/ \E r \in One : deleteDependent(r)

SpecDeps == Init /\ [][NextDeps]_vars

----------------------------------------------------------------------------
(* Claims about the dependents routes, under SpecDeps *)

Finishes(r, op) == pc[r] = op /\ pc'[r] = "done"

\* C6: a delete of dependent D by a user who does not own it is answered 404
\* 'Dependent not found' and leaves D stored under its owner; a delete removes a
\* row only when its id is the requested id and its userId the caller's; the list
\* of a user holds exactly the rows stored under that user.
C6_DeleteScopedToOwner ==
    [][\A r \in Conn :
        /\ Finishes(r, "deleteDependent") =>
              LET id == req[r].id
                  caller == ctx[r].userId IN
              /\ (id \in DOMAIN dependents /\ dependents[id].userId # caller) =>
                    /\ resp'[r] = [status |-> 404, body |-> Fail("Dependent not found")]
                    /\ dependents' = dependents
              /\ dependents' # dependents =>
                    /\ id \in DOMAIN dependents
                    /\ dependents[id].userId = caller
                    /\ dependents' = Drop(dependents, {id})
        /\ Finishes(r, "getDependents") =>
              {resp'[r].body.list[i].id : i \in DOMAIN resp'[r].body.list}
                 = {d \in DOMAIN dependents : dependents[d].userId = ctx[r].userId}
       ]_vars

C6_Witness ==
    \E r \in Conn :
        /\ req[r].op = "deleteDependent" /\ pc[r] = "done"
        /\ resp[r] = [status |-> 404, body |-> Fail("Dependent not found")]
        /\ req[r].id \in DOMAIN dependents
        /\ dependents[req[r].id].userId # ctx[r].userId
        /\ ctx[r].userId \in DOMAIN users

\* C7 as stated: add with a non-empty name and an absent or valid dob answers 201 and
\* stores a dependent of the caller, with or without relationship and ssn; otherwise
\* (name empty or dob no valid date) it answers 400 and stores nothing.
C7_Original ==
    [][\A r \in Conn :
        Finishes(r, "addDependent") =>
          LET b == req[r].body
              nameOk == "name" \in DOMAIN b /\ b.name # ""
              dobOk == "dob" \notin DOMAIN b \/ ValidDate(b.dob) IN
          IF nameOk /\ dobOk
            THEN /\ resp'[r].status = 201
                 /\ \E d \in DOMAIN dependents' \ DOMAIN dependents :
                       dependents'[d].userId = ctx[r].userId
            ELSE /\ resp'[r].status = 400
                 /\ dependents' = dependents
       ]_vars

\* add without a relationship: the model's notNull validation fails the create
C7_FailingInput ==
    \E r \in Conn :
        /\ req[r].op = "addDependent" /\ pc[r] = "done"
        /\ req[r].body = [name |-> "Kid"]
        /\ resp[r].status = 500

----------------------------------------------------------------------------
(* routes/dashboard.js: uploads *)

Max(S) == CHOOSE x \in S : \A y \in S : y <= x

\* path.extname(name): from the last '.', unless there is none or it leads the name
extname(name) ==
    LET dots == {i \in 1..Len(name) : name[i] = "."} IN
    IF dots = {} \/ Max(dots) = 1 THEN <<>> ELSE SubSeq(name, Max(dots), Len(name))

\* String.prototype.toLowerCase, on the letters of the model's file names
lowerChar(c) ==
    CASE c = "P" -> "p" [] c = "D" -> "d" [] c = "F" -> "f" [] OTHER -> c

toLowerCase(str) == [i \in 1..Len(str) |-> lowerChar(str[i])]

\* the alternatives of /jpeg|jpg|png|pdf|doc|docx/
allowedTypes ==
    {<<"j", "p", "e", "g">>, <<"j", "p", "g">>, <<"p", "n", "g">>, <<"p", "d", "f">>,
     <<"d", "o", "c">>, <<"d", "o", "c", "x">>}

\* allowedTypes.test(str): some alternative occurs somewhere in str
regexTest(str) == \E alt \in allowedTypes : Contains(str, alt)

\* fileFilter of upload and of uploadW2
fileFilter(file) ==
    regexTest(file.mimetype) /\ regexTest(toLowerCase(extname(file.originalname)))

MimePdf == <<"a", "p", "p", "l", "i", "c", "a", "t", "i", "o", "n", "/", "p", "d", "f">>
MimePng == <<"i", "m", "a", "g", "e", "/", "p", "n", "g">>
MimeWord == <<"a", "p", "p", "l", "i", "c", "a", "t", "i", "o", "n", "/",
              "m", "s", "w", "o", "r", "d">>
MimeExe == <<"a", "p", "p", "l", "i", "c", "a", "t", "i", "o", "n", "/",
             "x", "-", "m", "s", "d", "o", "w", "n", "l", "o", "a", "d">>

FileNames ==
    {<<"w", ".", "p", "d", "f">>, <<"w", ".", "P", "D", "F">>, <<"w", ".", "e", "x", "e">>,
     <<"w", ".", "p", "d", "f", "x">>, <<"w", ".", "d", "o", "c">>, <<"p", "d", "f">>,
     <<"w", ".", "p", "n", "g">>}

Files ==
    {NoFile} \cup
    {[present |-> TRUE, originalname |-> n, mimetype |-> MimePdf, size |-> 1000,
      content |-> "x"] : n \in FileNames} \cup
    {[present |-> TRUE, originalname |-> <<"w", ".", "p", "d", "f">>, mimetype |-> m,
      size |-> z, content |-> c] :
        m \in {MimePdf, MimeExe}, z \in {FileSizeLimit, FileSizeLimit + 1}, c \in {"x", "y"}} \cup
    {[present |-> TRUE, originalname |-> <<"w", ".", "d", "o", "c">>, mimetype |-> MimeWord,
      size |-> 1000, content |-> "x"],
     [present |-> TRUE, originalname |-> <<"w", ".", "p", "n", "g">>, mimetype |-> MimePng,
      size |-> 1000, content |-> "y"]}

\* Math.round(Math.random() * 1E9), over the values of the model
Rands == 0..MaxRand

\* storage.filename: '<kind>-' + userId + '-' + Date.now() + '-' + random + extname
fileName(kind, uid, rnd, file) == <<kind, uid, now, rnd, extname(file.originalname)>>

\* the names on disk in a directory
Names(dir) == {f[1] : f \in dir}

WriteFileNowhere(dir, name, content) == dir

\* diskStorage writes the file under its name, replacing a file of that name
WriteFile(dir, name, content) == {f \in dir : f[1] # name} \cup {<<name, content>>}

\* the error-handling middleware registered after the routers: every error passed
\* to next(err) is answered alike
errorHandler(name) ==
    [status |-> 500,
     body |-> [success |-> FALSE, message |-> "Something went wrong!",
               error |-> "Internal server error"]]

\* what multer passes to next(err): the fileFilter's Error, or its own MulterError
\* when the file is over limits.fileSize; "" when it accepts the file
multerError(file) ==
    IF ~fileFilter(file) THEN "Error"
    ELSE IF file.size > FileSizeLimit THEN "MulterError"
    ELSE ""

\* POST /upload-w9 and POST /upload-w2 after auth: multer's single(), then the handler
uploadStep(r, kind, rnd, dir, dir2) ==
    /\ pc[r] = kind
    /\ LET file == req[r].file
           uid == ctx[r].userId
           name == fileName(IF kind = "uploadW9" THEN "w9" ELSE "w2", uid, rnd, file)
       IN  IF ~file.present
             THEN /\ Reply(r, 400, Fail("No file uploaded"))
                  /\ UNCHANGED <<users, dir>>
           ELSE IF multerError(file) # ""
             THEN /\ Reply(r, errorHandler(multerError(file)).status,
                              errorHandler(multerError(file)).body)
                  /\ UNCHANGED <<users, dir>>
           ELSE /\ Cardinality(dir) < MaxFiles \/ name \in Names(dir)
                /\ dir' = WriteFile(dir, name, file.content)
                /\ IF ~userExists(uid)
                     THEN /\ Reply(r, 404, Fail("User not found"))
                          /\ UNCHANGED users
                   ELSE IF kind = "uploadW9"
                     THEN /\ users' = [users EXCEPT ![uid].w9Uploaded = TRUE,
                                                    ![uid].w9UploadDate = now,
                                                    ![uid].w9FileName = name]
                          /\ Reply(r, 200, [success |-> TRUE,
                                            message |-> "W-9 form uploaded successfully",
                                            fileName |-> name, uploadDate |-> now])
                     ELSE /\ users' = [users EXCEPT ![uid].w2Uploaded = TRUE,
                                                    ![uid].w2UploadDate = now,
                                                    ![uid].w2FileName = name]
                          /\ Reply(r, 200, [success |-> TRUE,
                                            message |-> "W-2 form uploaded successfully",
                                            fileName |-> name, uploadDate |-> now])
    /\ UNCHANGED <<now, nextId, dependents, nextDep, dir2, req, ctx, loaded, app>>

uploadW9(r, rnd) == uploadStep(r, "uploadW9", rnd, w9Files, w2Files)

uploadW2(r, rnd) == uploadStep(r, "uploadW2", rnd, w2Files, w9Files)

UploadSignupBodies == {[email |-> "a@x.com", password |-> Pw1]}

\* the uploads of one client, one request at a time
NextUpload ==
    \/ \E r \in One, b \in UploadSignupBodies : signupCheck(r, b)
    \/ \E r \in One : signupCreate(r)
    \/ \E r \in One, b \in UploadSignupBodies : login(r, b)
    \/ \E r \in One, h \in BearerHeaders, f \in Files : auth(r, "uploadW9", h, NoBody, 0, f)
    \/ \E r \in One, h \in BearerHeaders, f \in Files : auth(r, "uploadW2", h, NoBody, 0, f)
    \/ \E r \in One : uploadW9(r, 0)
    \/ \E r \in One : uploadW2(r, 0)

SpecUpload == Init /\ [][NextUpload]_vars

PdfFiles ==
    {[present |-> TRUE, originalname |-> <<"w", ".", "p", "d", "f">>, mimetype |-> MimePdf,
      size |-> 1000, content |-> c] : c \in {"x", "y"}}

\* uploads on every connection, interleaving, within one reading of the clock
NextNames ==
    \/ \E r \in Conn, b \in UploadSignupBodies : signupCheck(r, b)
    \/ \E r \in Conn : signupCreate(r)
    \/ \E r \in Conn, b \in UploadSignupBodies : login(r, b)
    \/ \E r \in Conn, h \in BearerHeaders, f \in PdfFiles : auth(r, "uploadW9", h, NoBody, 0, f)
    \/ \E r \in Conn, h \in BearerHeaders, f \in PdfFiles : auth(r, "uploadW2", h, NoBody, 0, f)
    \/ \E r \in Conn, rnd \in Rands : uploadW9(r, rnd)
    \/ \E r \in Conn, rnd \in Rands : uploadW2(r, rnd)

SpecNames == Init /\ [][NextNames]_vars

----------------------------------------------------------------------------
(* Claims about the uploads *)

UploadOps == {"uploadW9", "uploadW2"}

AllowedExtensions ==
    {<<".">> \o alt : alt \in allowedTypes}

\* C8 as stated: an upload of a file within the size limit is accepted exactly when
\* its extension is one of .jpeg .jpg .png .pdf .doc .docx and its content-type
\* matches the allow-list; a rejected upload changes no user row and no stored file.
C8_Original ==
    [][\A r \in Conn : \A op \in UploadOps :
        (Finishes(r, op) /\ req[r].file.present /\ req[r].file.size <= FileSizeLimit) =>
          LET f == req[r].file
              extOk == toLowerCase(extname(f.originalname)) \in AllowedExtensions IN
          IF extOk /\ regexTest(f.mimetype)
            THEN resp'[r].status = 200
            ELSE /\ resp'[r].status # 200
                 /\ UNCHANGED <<users, w9Files, w2Files>>
       ]_vars

\* a file named w.pdfx declared application/pdf is stored and answered 200
C8_FailingInput ==
    \E r \in Conn :
        /\ req[r].op \in UploadOps /\ pc[r] = "done" /\ resp[r].status = 200
        /\ extname(req[r].file.originalname) = <<".", "p", "d", "f", "x">>

\* C9 as stated: an upload that fails for no file, a rejected type or a file over
\* 5 MiB is answered 400.
C9_Original ==
    [][\A r \in Conn : \A op \in UploadOps :
        (Finishes(r, op) /\ (~req[r].file.present \/ ~fileFilter(req[r].file)
                               \/ req[r].file.size > FileSizeLimit)) =>
          resp'[r].status = 400
       ]_vars

C9_FailingInput ==
    \E r \in Conn :
        /\ req[r].op \in UploadOps /\ pc[r] = "done" /\ resp[r].status = 500
        /\ req[r].file.present /\ fileFilter(req[r].file)
        /\ req[r].file.size = FileSizeLimit + 1

\* C10 as stated: an upload is never written under the name of a file already
\* stored, so no stored file is replaced.
C10_Original ==
    [][\A r \in Conn : \A op \in UploadOps :
        (Finishes(r, op) /\ resp'[r].status = 200) =>
          /\ resp'[r].body.fileName \notin Names(w9Files) \cup Names(w2Files)
          /\ w9Files \subseteq w9Files'
          /\ w2Files \subseteq w2Files'
       ]_vars

\* two W-2 uploads of one user at one reading of the clock with one random draw:
\* the second upload has replaced the content stored by the first
C10_FailingInput ==
    \E r, q \in Conn :
        /\ r # q
        /\ req[r].op = "uploadW2" /\ req[q].op = "uploadW2"
        /\ resp[r].status = 200 /\ resp[q].status = 200
        /\ resp[r].body.fileName = resp[q].body.fileName
        /\ req[r].file.content # req[q].file.content
        /\ Cardinality(w2Files) = 1

----------------------------------------------------------------------------
(* routes/dashboard.js: the W-2 record *)

\* the handlers below run in two steps, split at the await of user.update: the
\* first loads the User instance and builds the new value from it, the second
\* saves it and answers
Load(r, row) == loaded' = [loaded EXCEPT ![r] = [row |-> row, at |-> now]]

\* the handler returns: its instance is gone
Unload(r) == loaded' = [loaded EXCEPT ![r] = NoRow]

\* a || b on the values of the model
Falsy(v) == v \in {Undefined, Str(""), Str(NullStr), Num(0)}
Or(a, b) == IF Falsy(a) THEN b ELSE a

\* a + ' ' + b
Concat(a, b) == [concat |-> <<a, " ", b>>]

MockAddress == "123 Main St, Anytown, CA 12345"
MockWages == 65000000
MockFederalTax == 8500000

\* extractedData: the mocked payload (of its constant boxes, box1 and box2)
extractedData(row, at) ==
    [employeeName |-> Or(Concat(row.firstName, row.lastName), Str("John Doe")),
     employeeSSN |-> Or(Str(row.ssn), Str("123-45-6789")),
     employeeAddress |-> Or(Str(row.address), Str(MockAddress)),
     employerName |-> Str("Sample Employer Inc."),
     box1_wages |-> Num(MockWages),
     box2_federalTax |-> Num(MockFederalTax),
     extractionDate |-> Date(at),
     extractionMethod |-> Str("mocked")]

existsSyncAnyFile(name) == TRUE

\* fs.existsSync of the W-2 file on record
existsSync(name) == name \in Names(w2Files)

\* a stored upload disappears from the disk (the uploads live on the app's own disk)
RemoveFile(f) ==
    /\ f \in w2Files
    /\ w2Files' = w2Files \ {f}
    /\ UNCHANGED <<now, users, nextId, dependents, nextDep, w9Files, pc, req, ctx, resp,
                   loaded, app>>

\* another writer of the store sets keys of the blobs that no route of the app writes
WriteOtherKeys(u) ==
    /\ u \in DOMAIN users
    /\ users[u].income.otherIncome = Undefined
    /\ users' = [users EXCEPT ![u].income.otherIncome = Num(0),
                              ![u].deductions.studentLoanInterest = Num(0)]
    /\ UNCHANGED <<now, nextId, dependents, nextDep, w9Files, w2Files, pc, req, ctx, resp,
                   loaded, app>>

\* the first write of the W-2 record only
SaveIncomeOnce(u, income) ==
    users' = IF u \in DOMAIN users /\ users[u].income.w2Data = Undefined
             THEN [users EXCEPT ![u].income = income]
             ELSE users

\* instance.update(values): an UPDATE of the columns given, of the row if it exists
SaveIncome(u, income) ==
    users' = IF u \in DOMAIN users THEN [users EXCEPT ![u].income = income] ELSE users

SaveDeductions(u, deductions) ==
    users' = IF u \in DOMAIN users THEN [users EXCEPT ![u].deductions = deductions] ELSE users

\* POST /extract-w2 after auth, up to the await of user.update
extractW2(r) ==
    /\ pc[r] = "extractW2"
    /\ LET u == ctx[r].userId IN
       IF ~userExists(u) \/ users[u].w2FileName = <<>>
         THEN /\ Reply(r, 404, Fail("No W-2 file found for this user. Please upload a W-2 form first."))
              /\ UNCHANGED loaded
       ELSE IF ~existsSync(users[u].w2FileName)
         THEN /\ Reply(r, 404, Fail("W-2 file not found on server."))
              /\ UNCHANGED loaded
       ELSE /\ Load(r, users[u])
            /\ pc' = [pc EXCEPT ![r] = "extractW2.update"]
            /\ UNCHANGED resp
    /\ UNCHANGED <<now, store, req, ctx, app>>

\* POST /extract-w2 from the await of user.update on
extractW2Update(r) ==
    /\ pc[r] = "extractW2.update"
    /\ LET row == loaded[r].row
           data == extractedData(row, loaded[r].at)
       IN  /\ SaveIncome(ctx[r].userId,
                         [row.income EXCEPT !.w2Data = data,
                                            !.lastW2Extraction = Date(loaded[r].at)])
           /\ Reply(r, 200, [success |-> TRUE,
                             message |-> "W-2 data extracted successfully",
                             data |-> data, fileName |-> row.w2FileName,
                             extractionDate |-> Date(now)])
    /\ Unload(r)
    /\ UNCHANGED <<now, nextId, dependents, nextDep, w9Files, w2Files, req, ctx, app>>

\* GET /w2-data after auth
getW2Data(r) ==
    /\ pc[r] = "getW2Data"
    /\ LET u == ctx[r].userId IN
       IF ~userExists(u)
         THEN Reply(r, 404, Fail("User not found"))
       ELSE IF users[u].income.w2Data = Undefined
         THEN Reply(r, 404, Fail("No extracted W-2 data found. Please extract W-2 data first."))
       ELSE Reply(r, 200, [success |-> TRUE, data |-> users[u].income.w2Data,
                           lastExtraction |-> users[u].income.lastW2Extraction])
    /\ UNCHANGED <<now, store, req, ctx, loaded, app>>

----------------------------------------------------------------------------
(* routes/dashboard.js: partial updates *)

\* the numeric strings of the model, and Number(s) of each in thousandths
NumericStrings == {"300000", "12"}
parseNumber(str) == IF str = "300000" THEN 300000 * 1000 ELSE 12 * 1000

\* express-validator isNumeric(): a number, or a string of digits
isNumeric(v) ==
    \/ "num" \in DOMAIN v
    \/ ("str" \in DOMAIN v /\ v.str \in NumericStrings)

\* the keys of a JSON body ({} is NoBody)
Keys(b) == DOMAIN b \ {"none"}

\* the body as the route's sanitizers leave it: trim() on the fields named
sanitize(b, trimmed) ==
    [k \in Keys(b) |->
        IF k \in trimmed /\ "str" \in DOMAIN b[k] THEN Str(trim(b[k].str)) ELSE b[k]]

\* the validation chain fails: a field named is present and not numeric
invalid(b, numeric) == \E k \in numeric \cap Keys(b) : ~isNumeric(b[k])

updatedDataCurrentLast(current, b, at) ==
    [k \in DOMAIN current \cup DOMAIN b \cup {"lastModified"} |->
        IF k = "lastModified" THEN Date(at)
        ELSE IF k \in DOMAIN current THEN current[k]
        ELSE b[k]]

updatedDataAdding(current, b, at) ==
    [k \in DOMAIN current \cup DOMAIN b \cup {"lastModified"} |->
        IF k = "lastModified" THEN Date(at)
        ELSE IF k \notin DOMAIN b THEN current[k]
        ELSE IF k \in DOMAIN current /\ "num" \in DOMAIN b[k] /\ "num" \in DOMAIN current[k]
          THEN Num(current[k].num + b[k].num)
        ELSE b[k]]

\* { ...current, ...req.body, lastModified: new Date() }
updatedData(current, b, at) ==
    [k \in DOMAIN current \cup DOMAIN b \cup {"lastModified"} |->
        IF k = "lastModified" THEN Date(at)
        ELSE IF k \in DOMAIN b THEN b[k]
        ELSE current[k]]

W2Numeric == {"box1_wages", "box2_federalTax"}
W2Trimmed == {"employerName"}

\* PUT /w2-data after auth, up to the await of user.update
updateW2(r) ==
    /\ pc[r] = "updateW2"
    /\ LET u == ctx[r].userId IN
       IF invalid(req[r].body, W2Numeric)
         THEN /\ Reply(r, 400, ValidationFailed)
              /\ UNCHANGED loaded
       ELSE IF ~userExists(u)
         THEN /\ Reply(r, 404, Fail("User not found"))
              /\ UNCHANGED loaded
       ELSE IF users[u].income.w2Data = Undefined
         THEN /\ Reply(r, 404, Fail("No W-2 data found to update. Please extract W-2 data first."))
              /\ UNCHANGED loaded
       ELSE /\ Load(r, users[u])
            /\ pc' = [pc EXCEPT ![r] = "updateW2.update"]
            /\ UNCHANGED resp
    /\ UNCHANGED <<now, store, req, ctx, app>>

\* PUT /w2-data from the await of user.update on
updateW2Update(r) ==
    /\ pc[r] = "updateW2.update"
    /\ LET row == loaded[r].row
           data == updatedData(row.income.w2Data, sanitize(req[r].body, W2Trimmed),
                               loaded[r].at)
       IN  /\ SaveIncome(ctx[r].userId, [row.income EXCEPT !.w2Data = data])
           /\ Reply(r, 200, [success |-> TRUE, message |-> "W-2 data updated successfully",
                             data |-> data])
    /\ Unload(r)
    /\ UNCHANGED <<now, nextId, dependents, nextDep, w9Files, w2Files, req, ctx, app>>

F1098Numeric == {"mortgageInterestReceived", "pointsPaid", "mortgageInsurancePremiums"}
F1098Trimmed == {"lenderName"}

\* PUT /1098-data after auth, up to the await of user.update
update1098(r) ==
    /\ pc[r] = "update1098"
    /\ LET u == ctx[r].userId IN
       IF invalid(req[r].body, F1098Numeric)
         THEN /\ Reply(r, 400, ValidationFailed)
              /\ UNCHANGED loaded
       ELSE IF ~userExists(u)
         THEN /\ Reply(r, 404, Fail("User not found"))
              /\ UNCHANGED loaded
       ELSE IF users[u].deductions.form1098 = Undefined
         THEN /\ Reply(r, 404, Fail("No 1098 data found to update. Please generate 1098 form first."))
              /\ UNCHANGED loaded
       ELSE /\ Load(r, users[u])
            /\ pc' = [pc EXCEPT ![r] = "update1098.update"]
            /\ UNCHANGED resp
    /\ UNCHANGED <<now, store, req, ctx, app>>

\* PUT /1098-data from the await of user.update on
update1098Update(r) ==
    /\ pc[r] = "update1098.update"
    /\ LET row == loaded[r].row
           data == updatedData(row.deductions.form1098,
                               sanitize(req[r].body, F1098Trimmed), loaded[r].at)
       IN  /\ SaveDeductions(ctx[r].userId, [row.deductions EXCEPT !.form1098 = data])
           /\ Reply(r, 200, [success |-> TRUE, message |-> "1098 data updated successfully",
                             data |-> data])
    /\ Unload(r)
    /\ UNCHANGED <<now, nextId, dependents, nextDep, w9Files, w2Files, req, ctx, app>>

----------------------------------------------------------------------------
(* routes/dashboard.js: the 1098 record *)

Min(a, b) == IF a <= b THEN a ELSE b

\* the value as a number in arithmetic: Number(v) of a string
toNumber(v) == IF "num" \in DOMAIN v THEN v.num ELSE parseNumber(v.str)

\* the constants of the estimate; amounts are in thousandths of a dollar
InterestCap == 10000000
InterestRatePct == 4
PremiumRatePerMille == 5
PrincipalFactorHalves == 7

estimatedMortgageInterestUncapped(w) == (w * InterestRatePct) \div 100

\* Math.min(w2Data.box1_wages * 0.04, 10000)
estimatedMortgageInterest(w) == Min((w * InterestRatePct) \div 100, InterestCap)

\* w2Data.box1_wages * 0.005
mortgageInsurancePremiums(w) == (w * PremiumRatePerMille) \div 1000

\* w2Data.box1_wages * 3.5
outstandingMortgagePrincipal(w) == (w * PrincipalFactorHalves) \div 2

\* the form1098 object built from the loaded user (of its constants, lenderName)
form1098(u, row, at) ==
    LET w2Data == row.income.w2Data
        w == toNumber(w2Data.box1_wages)
        address == Or(w2Data.employeeAddress, Or(Str(row.address), Str(MockAddress)))
    IN  [borrowerName |-> Or(w2Data.employeeName, Concat(row.firstName, row.lastName)),
         borrowerSSN |-> Or(w2Data.employeeSSN, Or(Str(row.ssn), Str("123-45-6789"))),
         borrowerAddress |-> address,
         lenderName |-> Str("First National Mortgage Bank"),
         mortgageInterestReceived |-> Num(estimatedMortgageInterest(w)),
         pointsPaid |-> Num(0),
         refundOfOverpaidInterest |-> Num(0),
         mortgageInsurancePremiums |-> Num(mortgageInsurancePremiums(w)),
         outstandingMortgagePrincipal |-> Num(outstandingMortgagePrincipal(w)),
         propertyAddress |-> address,
         generatedDate |-> Date(at),
         accountNumber |-> [mtg |-> u],
         calculationBasis |-> [basedOnW2Income |-> w2Data.box1_wages,
                               interestRate |-> InterestRatePct,
                               estimationMethod |-> "income_based"]]

withForm1098NoSpread(deductions, data, at) ==
    [NoDeductions EXCEPT !.form1098 = data, !.last1098Generation = Date(at)]

\* { ...user.deductions, form1098: form1098, last1098Generation: new Date() }
withForm1098(deductions, data, at) ==
    [deductions EXCEPT !.form1098 = data, !.last1098Generation = Date(at)]

\* POST /generate-1098 after auth, up to the await of user.update
generate1098(r) ==
    /\ pc[r] = "generate1098"
    /\ LET u == ctx[r].userId IN
       IF ~userExists(u) \/ users[u].income.w2Data = Undefined
         THEN /\ Reply(r, 404, Fail("No W-2 data found. Please extract W-2 data first."))
              /\ UNCHANGED loaded
         ELSE /\ Load(r, users[u])
              /\ pc' = [pc EXCEPT ![r] = "generate1098.update"]
              /\ UNCHANGED resp
    /\ UNCHANGED <<now, store, req, ctx, app>>

\* POST /generate-1098 from the await of user.update on
generate1098Update(r) ==
    /\ pc[r] = "generate1098.update"
    /\ LET row == loaded[r].row
           data == form1098(ctx[r].userId, row, loaded[r].at)
       IN  /\ SaveDeductions(ctx[r].userId, withForm1098(row.deductions, data, loaded[r].at))
           /\ Reply(r, 200, [success |-> TRUE,
                             message |-> "1098 form data generated successfully",
                             data |-> data, generatedDate |-> Date(now)])
    /\ Unload(r)
    /\ UNCHANGED <<now, nextId, dependents, nextDep, w9Files, w2Files, req, ctx, app>>

\* GET /1098-data after auth: Form1098 is no binding of the module, so the first
\* statement of the try throws a ReferenceError and the catch answers
get1098Data(r) ==
    /\ pc[r] = "get1098Data"
    /\ Reply(r, 500, Fail("Server error"))
    /\ UNCHANGED <<now, store, req, ctx, loaded, app>>

toFixedTruncating(m) ==
    LET c == m \div 10 IN <<c \div 100, ".", (c % 100) \div 10, c % 10>>

\* Number.prototype.toFixed(2) of an amount in thousandths: the digits of the
\* nearest hundredth (the amounts of the model are never half-way between two)
toFixed(m) ==
    LET c == (m + 5) \div 10 IN <<c \div 100, ".", (c % 100) \div 10, c % 10>>

\* the fields download-1098 calls toFixed on
Boxes == <<"mortgageInterestReceived", "pointsPaid", "refundOfOverpaidInterest",
           "mortgageInsurancePremiums", "outstandingMortgagePrincipal">>

\* v.toFixed is a function: v is a number
hasToFixed(v) == "num" \in DOMAIN v

\* GET /download-1098 after auth
download1098(r) ==
    /\ pc[r] = "download1098"
    /\ LET u == ctx[r].userId IN
       IF ~userExists(u)
         THEN Reply(r, 404, Fail("User not found"))
       ELSE IF users[u].deductions.form1098 = Undefined
         THEN Reply(r, 404, Fail("No 1098 data found. Please generate 1098 form first."))
       ELSE LET f == users[u].deductions.form1098 IN
            IF \/ \E i \in DOMAIN Boxes : ~hasToFixed(f[Boxes[i]])
               \/ ~hasToFixed(f.calculationBasis.basedOnW2Income)
              THEN Reply(r, 500, Fail("Server error generating 1098 PDF"))
              ELSE Reply(r, 200, [contentType |-> "application/pdf",
                                  attachment |-> TRUE,
                                  boxes |-> [i \in DOMAIN Boxes |-> toFixed(f[Boxes[i]].num)],
                                  basedOnW2Income |->
                                      toFixed(f.calculationBasis.basedOnW2Income.num)])
    /\ UNCHANGED <<now, store, req, ctx, loaded, app>>

----------------------------------------------------------------------------
(* The W-2 and 1098 routes of one client, one request at a time *)

W2Bodies ==
    {[box1_wages |-> Num(70000 * 1000)],
     [box1_wages |-> Str("300000")],
     [box1_wages |-> Str("lots")],
     [box2_federalTax |-> Num(9000 * 1000), note |-> Str("checked")],
     [employerName |-> Str(" Acme ")]}

F1098Bodies ==
    {[mortgageInterestReceived |-> Num(2600126)],
     [pointsPaid |-> Str("12")],
     [pointsPaid |-> Str("some")],
     [lenderName |-> Str(" Bank "), note |-> Str("checked")]}

OnePdf ==
    {[present |-> TRUE, originalname |-> <<"w", ".", "p", "d", "f">>, mimetype |-> MimePdf,
      size |-> 1000, content |-> "x"]}

FormOps == {"extractW2", "getW2Data", "generate1098", "get1098Data", "download1098"}

NextForms ==
    \/ \E r \in One, b \in UploadSignupBodies : signupCheck(r, b)
    \/ \E r \in One : signupCreate(r)
    \/ \E r \in One, b \in UploadSignupBodies : login(r, b)
    \/ \E f \in w2Files : RemoveFile(f)
    \/ \E u \in 1..MaxUsers : WriteOtherKeys(u)
    \/ \E r \in One, h \in BearerHeaders, f \in OnePdf : auth(r, "uploadW2", h, NoBody, 0, f)
    \/ \E r \in One, h \in BearerHeaders, op \in FormOps : auth(r, op, h, NoBody, 0, NoFile)
    \/ \E r \in One, h \in BearerHeaders, b \in W2Bodies : auth(r, "updateW2", h, b, 0, NoFile)
    \/ \E r \in One, h \in BearerHeaders, b \in F1098Bodies :
          auth(r, "update1098", h, b, 0, NoFile)
    \/ \E r \in One : uploadW2(r, 0)
    \/ \E r \in One : extractW2(r)
    \/ \E r \in One : extractW2Update(r)
    \/ \E r \in One : getW2Data(r)
    \/ \E r \in One : updateW2(r)
    \/ \E r \in One : updateW2Update(r)
    \/ \E r \in One : generate1098(r)
    \/ \E r \in One : generate1098Update(r)
    \/ \E r \in One : get1098Data(r)
    \/ \E r \in One : update1098(r)
    \/ \E r \in One : update1098Update(r)
    \/ \E r \in One : download1098(r)

SpecForms == Init /\ [][NextForms]_vars

----------------------------------------------------------------------------
(* Claims about the W-2 and 1098 routes, under SpecForms *)

\* the handler of op on r takes its step in this transition
Steps(r, op) == pc[r] = op /\ pc'[r] # op

\* the row of the caller is as the handler loaded it
Unwritten(r) ==
    /\ ctx[r].userId \in DOMAIN users
    /\ users[ctx[r].userId] = loaded[r].row

\* every column of the row but the one named is as it was
SameBut(u, column) ==
    /\ DOMAIN users' = DOMAIN users
    /\ \A v \in DOMAIN users \ {u} : users'[v] = users[v]
    /\ \A c \in DOMAIN users[u] \ {column} : users'[u][c] = users[u][c]

\* C11: extract-w2 goes on to store a snapshot exactly when the caller's row names
\* a W-2 file and that file is on disk; otherwise it answers 404 and changes no
\* user row. When it succeeds the stored w2Data is the fresh payload alone (the mock's
\* keys and values, no key of an earlier update), lastW2Extraction is stamped, and
\* the other keys of income and every other column are as they were.
C11_ExtractW2 ==
    [][\A r \in Conn :
        /\ Steps(r, "extractW2") =>
              LET u == ctx[r].userId
                  onRecord == u \in DOMAIN users /\ users[u].w2FileName # <<>>
                  stored == onRecord /\ users[u].w2FileName \in Names(w2Files) IN
              /\ users' = users
              /\ IF stored THEN pc'[r] = "extractW2.update" /\ resp'[r].status = 0
                 ELSE pc'[r] = "done" /\ resp'[r].status = 404
                      /\ resp'[r].body.success = FALSE
        /\ (Steps(r, "extractW2.update") /\ Unwritten(r)) =>
              LET u == ctx[r].userId
                  w2 == users'[u].income.w2Data IN
              /\ resp'[r].status = 200
              /\ resp'[r].body.data = w2
              /\ DOMAIN w2 = DOMAIN extractedData(users[u], now)
              /\ w2.box1_wages = Num(65000 * 1000)
              /\ w2.box2_federalTax = Num(8500 * 1000)
              /\ w2.employerName = Str("Sample Employer Inc.")
              /\ w2.extractionDate = Date(now)
              /\ users'[u].income.lastW2Extraction = Date(now)
              /\ users'[u].income.otherIncome = users[u].income.otherIncome
              /\ SameBut(u, "income")
       ]_vars

\* a re-extraction answered 200 for a user whose income has a key of another writer
C11_Witness ==
    \E r \in Conn :
        /\ req[r].op = "extractW2" /\ pc[r] = "done" /\ resp[r].status = 200
        /\ users[ctx[r].userId].income.otherIncome = Num(0)
        /\ users[ctx[r].userId].income.w2Data = resp[r].body.data
        /\ users[ctx[r].userId].deductions.form1098 # Undefined

\* the file on record is gone from the disk: 404
C11_WitnessFileMissing ==
    \E r \in Conn :
        /\ req[r].op = "extractW2" /\ pc[r] = "done"
        /\ resp[r] = [status |-> 404, body |-> Fail("W-2 file not found on server.")]
        /\ users[ctx[r].userId].w2FileName # <<>>

\* the stored record new is the record prev with the fields of b written over it
\* and lastModified stamped
Merged(new, prev, b) ==
    /\ DOMAIN new = DOMAIN prev \cup DOMAIN b \cup {"lastModified"}
    /\ \A k \in DOMAIN b \ {"lastModified"} : new[k] = b[k]
    /\ \A k \in DOMAIN prev \ (DOMAIN b \cup {"lastModified"}) : new[k] = prev[k]
    /\ new.lastModified = Date(now)

\* C12: PUT /w2-data and PUT /1098-data with a body that passes validation answer
\* 404 and change no row when the caller has no W-2 record (no 1098 record); otherwise
\* the stored record becomes the previous record with every field of the body (as
\* the route's sanitizers leave it) written over it, every other field as it was and
\* lastModified stamped, and nothing else of the row changes.
C12_PartialUpdateMerges ==
    [][\A r \in Conn :
        LET u == ctx[r].userId IN
        /\ (Steps(r, "updateW2") /\ ~invalid(req[r].body, W2Numeric) /\ u \in DOMAIN users
              /\ users[u].income.w2Data = Undefined) =>
              resp'[r].status = 404 /\ users' = users
        /\ (Steps(r, "update1098") /\ ~invalid(req[r].body, F1098Numeric) /\ u \in DOMAIN users
              /\ users[u].deductions.form1098 = Undefined) =>
              resp'[r].status = 404 /\ users' = users
        /\ (Steps(r, "updateW2") /\ ~invalid(req[r].body, W2Numeric) /\ u \in DOMAIN users
              /\ users[u].income.w2Data # Undefined) =>
              pc'[r] = "updateW2.update" /\ users' = users
        /\ (Steps(r, "update1098") /\ ~invalid(req[r].body, F1098Numeric) /\ u \in DOMAIN users
              /\ users[u].deductions.form1098 # Undefined) =>
              pc'[r] = "update1098.update" /\ users' = users
        /\ (Steps(r, "updateW2.update") /\ Unwritten(r)) =>
              /\ resp'[r].status = 200
              /\ resp'[r].body.data = users'[u].income.w2Data
              /\ Merged(users'[u].income.w2Data, users[u].income.w2Data,
                        sanitize(req[r].body, W2Trimmed))
              /\ users'[u].income.lastW2Extraction = users[u].income.lastW2Extraction
              /\ users'[u].income.otherIncome = users[u].income.otherIncome
              /\ SameBut(u, "income")
        /\ (Steps(r, "update1098.update") /\ Unwritten(r)) =>
              /\ resp'[r].status = 200
              /\ resp'[r].body.data = users'[u].deductions.form1098
              /\ Merged(users'[u].deductions.form1098, users[u].deductions.form1098,
                        sanitize(req[r].body, F1098Trimmed))
              /\ users'[u].deductions.last1098Generation = users[u].deductions.last1098Generation
              /\ users'[u].deductions.studentLoanInterest
                    = users[u].deductions.studentLoanInterest
              /\ SameBut(u, "deductions")
       ]_vars

\* an update of box2 and note answered 200 on a record whose wages an earlier
\* update had set: both are stored
C12_Witness ==
    \E r \in Conn :
        /\ req[r].op = "updateW2" /\ pc[r] = "done" /\ resp[r].status = 200
        /\ "note" \in DOMAIN req[r].body
        /\ users[ctx[r].userId].income.w2Data.note = Str("checked")
        /\ users[ctx[r].userId].income.w2Data.box2_federalTax = Num(9000 * 1000)
        /\ users[ctx[r].userId].income.w2Data.box1_wages = Num(70000 * 1000)
        /\ users[ctx[r].userId].income.w2Data.lastModified = Date(now)

\* an update of the 1098 record before any was generated: 404
C12_WitnessNotFound ==
    \E r \in Conn :
        /\ req[r].op = "update1098" /\ pc[r] = "done" /\ resp[r].status = 404
        /\ users[ctx[r].userId].income.w2Data # Undefined
        /\ users[ctx[r].userId].deductions.form1098 = Undefined

\* the wages a stored W-2 record holds, in thousandths: a number, or the number a
\* numeric string denotes
Wages(w2) ==
    IF "num" \in DOMAIN w2.box1_wages THEN w2.box1_wages.num
    ELSE IF w2.box1_wages.str = "300000" THEN 300000000 ELSE 12000

\* C13: for the wages w of the stored W-2 record (the mock's, or a number or numeric
\* string set through PUT /w2-data), generate-1098 stores mortgageInterestReceived =
\* min(w * 0.04, 10000), mortgageInsurancePremiums = w * 0.005,
\* outstandingMortgagePrincipal = w * 3.5 and pointsPaid = refundOfOverpaidInterest
\* = 0; for w = 65000 these are 2600, 325 and 227500.
C13_Generate1098Formula ==
    [][\A r \in Conn :
        (Steps(r, "generate1098.update") /\ Unwritten(r)) =>
          LET u == ctx[r].userId
              w == Wages(users[u].income.w2Data)
              f == users'[u].deductions.form1098 IN
          /\ 100 * f.mortgageInterestReceived.num
                = (IF w * 4 <= 100 * 10000000 THEN w * 4 ELSE 100 * 10000000)
          /\ 1000 * f.mortgageInsurancePremiums.num = w * 5
          /\ 2 * f.outstandingMortgagePrincipal.num = w * 7
          /\ f.pointsPaid = Num(0)
          /\ f.refundOfOverpaidInterest = Num(0)
          /\ w = 65000000 =>
                /\ f.mortgageInterestReceived = Num(2600000)
                /\ f.mortgageInsurancePremiums = Num(325000)
                /\ f.outstandingMortgagePrincipal = Num(227500000)
       ]_vars

\* a generation from wages 300000 set through PUT /w2-data: the interest is capped
C13_Witness ==
    \E r \in Conn :
        /\ req[r].op = "generate1098" /\ pc[r] = "done" /\ resp[r].status = 200
        /\ users[ctx[r].userId].income.w2Data.box1_wages = Str("300000")
        /\ resp[r].body.data.mortgageInterestReceived = Num(10000000)
        /\ resp[r].body.data.mortgageInsurancePremiums = Num(1500000)
        /\ users[ctx[r].userId].deductions.form1098 = resp[r].body.data

\* a generation from the mock's wages
C13_WitnessMock ==
    \E r \in Conn :
        /\ req[r].op = "generate1098" /\ pc[r] = "done" /\ resp[r].status = 200
        /\ users[ctx[r].userId].income.w2Data.box1_wages = Num(65000000)
        /\ resp[r].body.data.mortgageInterestReceived = Num(2600000)

C14_WitnessNotFound ==
    \E r \in Conn :
        /\ req[r].op = "generate1098" /\ pc[r] = "done" /\ resp[r].status = 404
        /\ users[ctx[r].userId].w2FileName # <<>>
        /\ users[ctx[r].userId].deductions = NoDeductions

\* C15 as stated: GET /1098-data answers 200 with exactly the stored 1098 record of
\* the caller once one was generated, and 404 before.
C15_Original ==
    [][\A r \in Conn :
        (Steps(r, "get1098Data") /\ ctx[r].userId \in DOMAIN users) =>
          LET f == users[ctx[r].userId].deductions.form1098 IN
          IF f # Undefined
            THEN resp'[r].status = 200 /\ resp'[r].body.data = f
            ELSE resp'[r].status = 404
       ]_vars

\* GET /1098-data after a successful generation: 500 'Server error'
C15_FailingInput ==
    \E r \in Conn :
        /\ req[r].op = "get1098Data" /\ pc[r] = "done"
        /\ resp[r] = [status |-> 500, body |-> Fail("Server error")]
        /\ users[ctx[r].userId].deductions.form1098 # Undefined

\* the digits d are the amount m (in thousandths) to two decimals
TwoDecimals(d, m) ==
    /\ Len(d) = 4 /\ d[2] = "."
    /\ d[3] \in 0..9 /\ d[4] \in 0..9
    /\ 10 * (100 * d[1] + 10 * d[3] + d[4]) - m \in -4..5

\* the record's amounts are numbers, as generate-1098 stores them
AllNumbers(f) ==
    /\ \A i \in DOMAIN Boxes : "num" \in DOMAIN f[Boxes[i]]
    /\ "num" \in DOMAIN f.calculationBasis.basedOnW2Income

\* C16: download-1098 answers 404 when the caller has no 1098 record; when the
\* record's amounts are numbers, as they are in the record generate-1098 stores
\* from a fresh extraction, it answers 200 with an application/pdf attachment whose
\* five box values are the record's fields to two decimals (2600.00, 325.00 and
\* 227500.00 in boxes 1, 4 and 5 after upload, extract-w2 and generate-1098).
C16_Download1098 ==
    [][\A r \in Conn :
        (Steps(r, "download1098") /\ ctx[r].userId \in DOMAIN users) =>
          LET u == ctx[r].userId
              f == users[u].deductions.form1098 IN
          /\ f = Undefined => resp'[r].status = 404 /\ resp'[r].body.success = FALSE
          /\ (f # Undefined /\ "lastModified" \notin DOMAIN f
                /\ f.calculationBasis.basedOnW2Income = Num(65000 * 1000)) =>
                /\ AllNumbers(f)
                /\ resp'[r].body.boxes[1] = <<2600, ".", 0, 0>>
                /\ resp'[r].body.boxes[4] = <<325, ".", 0, 0>>
                /\ resp'[r].body.boxes[5] = <<227500, ".", 0, 0>>
          /\ (f # Undefined /\ AllNumbers(f)) =>
                /\ resp'[r].status = 200
                /\ resp'[r].body.contentType = "application/pdf"
                /\ resp'[r].body.attachment
                /\ \A i \in DOMAIN Boxes :
                      TwoDecimals(resp'[r].body.boxes[i], f[Boxes[i]].num)
          /\ UNCHANGED store
       ]_vars

\* the download after extract-w2 and generate-1098: 2600.00, 0.00, 0.00, 325.00, 227500.00
C16_Witness ==
    \E r \in Conn :
        /\ req[r].op = "download1098" /\ pc[r] = "done" /\ resp[r].status = 200
        /\ "lastModified" \notin DOMAIN users[ctx[r].userId].deductions.form1098
        /\ resp[r].body.boxes = <<<<2600, ".", 0, 0>>, <<0, ".", 0, 0>>, <<0, ".", 0, 0>>,
                                  <<325, ".", 0, 0>>, <<227500, ".", 0, 0>>>>

\* a download of a record whose Box 1 was set to 2600.126: 2600.13
C16_WitnessRounded ==
    \E r \in Conn :
        /\ req[r].op = "download1098" /\ pc[r] = "done" /\ resp[r].status = 200
        /\ users[ctx[r].userId].deductions.form1098.mortgageInterestReceived = Num(2600126)
        /\ resp[r].body.boxes[1] = <<2600, ".", 1, 3>>

\* a download before any generation: 404
C16_WitnessNotFound ==
    \E r \in Conn :
        /\ req[r].op = "download1098" /\ pc[r] = "done" /\ resp[r].status = 404
        /\ users[ctx[r].userId].income.w2Data # Undefined

----------------------------------------------------------------------------
(* Partial updates on every connection, interleaving at their awaits *)

MergeW2Bodies ==
    {[box1_wages |-> Num(70000 * 1000)],
     [box2_federalTax |-> Num(9000 * 1000), employerName |-> Str(" Acme ")]}

Merge1098Bodies ==
    {[mortgageInterestReceived |-> Num(3000 * 1000)],
     [pointsPaid |-> Num(12 * 1000), lenderName |-> Str(" Bank ")]}

SetupOps == {"extractW2", "generate1098"}

NextMerge ==
    \/ \E r \in One, b \in UploadSignupBodies : signupCheck(r, b)
    \/ \E r \in One : signupCreate(r)
    \/ \E r \in One, b \in UploadSignupBodies : login(r, b)
    \/ \E r \in One, h \in BearerHeaders, f \in OnePdf : auth(r, "uploadW2", h, NoBody, 0, f)
    \/ \E r \in One, h \in BearerHeaders, op \in SetupOps : auth(r, op, h, NoBody, 0, NoFile)
    \/ \E r \in One : uploadW2(r, 0)
    \/ \E r \in One : extractW2(r)
    \/ \E r \in One : extractW2Update(r)
    \/ \E r \in One : generate1098(r)
    \/ \E r \in One : generate1098Update(r)
    \/ \E r \in Conn, h \in BearerHeaders, b \in MergeW2Bodies :
          auth(r, "updateW2", h, b, 0, NoFile)
    \/ \E r \in Conn, h \in BearerHeaders, b \in Merge1098Bodies :
          auth(r, "update1098", h, b, 0, NoFile)
    \/ \E r \in Conn : updateW2(r)
    \/ \E r \in Conn : updateW2Update(r)
    \/ \E r \in Conn : update1098(r)
    \/ \E r \in Conn : update1098Update(r)

SpecMerge == Init /\ [][NextMerge]_vars

----------------------------------------------------------------------------
(* Claims about interleaved and repeated partial updates, under SpecMerge *)

\* q is a finished, successful update of the kind op whose result is what is
\* stored as cur and what the handler on r loaded as snap
After(r, q, op, cur, snap) ==
    /\ q # r
    /\ pc[q] = "done" /\ req[q].op = op /\ resp[q].status = 200
    /\ resp[q].body.data = cur
    /\ snap = cur

\* C17: a partial update writes the record its handler read with the body's fields
\* over it, whatever was stored since (last write wins), so an update that read
\* before another wrote erases the other's fields; an update that read after another
\* update had written stores both writers' fields.
C17_LastWriteWins ==
    [][\A r \in Conn :
        LET u == ctx[r].userId IN
        /\ (Steps(r, "updateW2.update") /\ u \in DOMAIN users) =>
              LET snap == loaded[r].row.income.w2Data
                  cur == users[u].income.w2Data
                  new == users'[u].income.w2Data
                  b == sanitize(req[r].body, W2Trimmed) IN
              /\ Merged(new, snap, b)
              /\ \A q \in Conn : After(r, q, "updateW2", cur, snap) =>
                    \A k \in Keys(req[q].body) \ Keys(req[r].body) :
                        new[k] = sanitize(req[q].body, W2Trimmed)[k]
        /\ (Steps(r, "update1098.update") /\ u \in DOMAIN users) =>
              LET snap == loaded[r].row.deductions.form1098
                  cur == users[u].deductions.form1098
                  new == users'[u].deductions.form1098
                  b == sanitize(req[r].body, F1098Trimmed) IN
              /\ Merged(new, snap, b)
              /\ \A q \in Conn : After(r, q, "update1098", cur, snap) =>
                    \A k \in Keys(req[q].body) \ Keys(req[r].body) :
                        new[k] = sanitize(req[q].body, F1098Trimmed)[k]
       ]_vars

\* two updates of disjoint fields were both answered 200, each response without
\* the other's field, and the stored record is the one's without the other's wages
C17_Witness ==
    \E r, q \in Conn :
        LET w2 == users[ctx[r].userId].income.w2Data IN
        /\ r # q /\ ctx[r].userId = ctx[q].userId
        /\ req[r].op = "updateW2" /\ req[q].op = "updateW2"
        /\ pc[r] = "done" /\ pc[q] = "done"
        /\ resp[r].status = 200 /\ resp[q].status = 200
        /\ Keys(req[r].body) \cap Keys(req[q].body) = {}
        /\ "box1_wages" \in Keys(req[q].body)
        /\ req[q].body.box1_wages = Num(70000 * 1000)
        /\ ctx[r].userId \in DOMAIN users
        /\ resp[q].body.data.box1_wages = Num(70000 * 1000)
        /\ resp[q].body.data.box2_federalTax = Num(8500 * 1000)
        /\ resp[r].body.data.box1_wages = Num(65000 * 1000)
        /\ w2 = resp[r].body.data

\* two updates of disjoint fields, one after the other: both are stored
C17_WitnessSequential ==
    \E r, q \in Conn :
        LET w2 == users[ctx[r].userId].income.w2Data IN
        /\ r # q
        /\ req[r].op = "updateW2" /\ req[q].op = "updateW2"
        /\ resp[r].status = 200 /\ resp[q].status = 200
        /\ Keys(req[r].body) \cap Keys(req[q].body) = {}
        /\ ctx[r].userId \in DOMAIN users
        /\ {"box1_wages", "box2_federalTax", "employerName"} \subseteq DOMAIN w2
        /\ w2.box1_wages = Num(70000 * 1000)
        /\ w2.box2_federalTax = Num(9000 * 1000)
        /\ w2.employerName = Str("Acme")

\* the record without its lastModified stamp
Unstamped(rec) == [k \in DOMAIN rec \ {"lastModified"} |-> rec[k]]

\* C18: an update with the body of the update that wrote the stored record leaves
\* the record as it is, but for lastModified.
C18_UpdateIdempotent ==
    [][\A r \in Conn :
        LET u == ctx[r].userId IN
        /\ (Steps(r, "updateW2.update") /\ u \in DOMAIN users) =>
              \A q \in Conn :
                 (After(r, q, "updateW2", users[u].income.w2Data, loaded[r].row.income.w2Data)
                    /\ req[q].body = req[r].body) =>
                 /\ Unstamped(users'[u].income.w2Data) = Unstamped(users[u].income.w2Data)
                 /\ Unstamped(resp'[r].body.data) = Unstamped(resp[q].body.data)
        /\ (Steps(r, "update1098.update") /\ u \in DOMAIN users) =>
              \A q \in Conn :
                 (After(r, q, "update1098", users[u].deductions.form1098,
                        loaded[r].row.deductions.form1098)
                    /\ req[q].body = req[r].body) =>
                 /\ Unstamped(users'[u].deductions.form1098)
                       = Unstamped(users[u].deductions.form1098)
                 /\ Unstamped(resp'[r].body.data) = Unstamped(resp[q].body.data)
       ]_vars

\* the same update of the 1098 record answered 200 twice, with the same record
C18_Witness ==
    \E r, q \in Conn :
        /\ r # q
        /\ req[r].op = "update1098" /\ req[q].op = "update1098"
        /\ pc[r] = "done" /\ pc[q] = "done"
        /\ resp[r].status = 200 /\ resp[q].status = 200
        /\ req[r].body = req[q].body
        /\ "lenderName" \in DOMAIN req[r].body
        /\ users[ctx[r].userId].deductions.form1098.lenderName = Str("Bank")
        /\ users[ctx[r].userId].deductions.form1098 = resp[r].body.data

----------------------------------------------------------------------------
(* server.js: the app that mounts its routers when the store is connected *)

\* the app when it starts to listen: initializeDatabase awaits connectDB, and the
\* stack holds what the module registered
InitServer ==
    /\ now = 0
    /\ users = [i \in {} |-> 0]
    /\ nextId = 1
    /\ dependents = [i \in {} |-> 0]
    /\ nextDep = 1
    /\ w9Files = {}
    /\ w2Files = {}
    /\ pc = [r \in Conn |-> "idle"]
    /\ req = [r \in Conn |-> NoReq]
    /\ ctx = [r \in Conn |-> NoCtx]
    /\ resp = [r \in Conn |-> NoResp]
    /\ loaded = [r \in Conn |-> NoRow]
    /\ dbReady = FALSE
    /\ dbInit = "connecting"
    /\ stack = <<"cors", "health", "ready", "error", "notFound">>
    /\ db = NoConnect

\* initializeDatabase: connectDB resolved
initializeDatabase ==
    /\ dbInit = "connecting"
    /\ dbReady' = TRUE
    /\ stack' = stack \o <<"auth", "dashboard">>
    /\ dbInit' = "done"
    /\ UNCHANGED <<now, store, pc, req, ctx, resp, loaded, db>>

\* initializeDatabase: connectDB threw
initializeDatabaseCatch ==
    /\ dbInit = "connecting"
    /\ dbReady' = FALSE
    /\ dbInit' = "failed"
    /\ UNCHANGED <<now, store, pc, req, ctx, resp, loaded, stack, db>>

Methods == {"GET", "POST", "OPTIONS"}

\* request paths, by their segments
Paths ==
    {<<>>, <<"health">>, <<"other">>, <<"api">>, <<"api", "nothing">>,
     <<"api", "auth", "login">>, <<"api", "dashboard", "me">>}

\* the path matches '/api/*'
underApi(p) == Len(p) >= 2 /\ p[1] = "api"

\* the path is under the mount point of the router
mounted(p, name) == Len(p) >= 3 /\ p[1] = "api" /\ p[2] = name

readyNoCheck == TRUE

\* the readiness middleware lets the request pass
ready == dbReady

\* the app handles a request: the first layer from i on that answers it, or the
\* router that takes it (status 0); past the last layer Express answers itself
RECURSIVE handle(_, _, _)
handle(m, p, i) ==
    IF i > Len(stack) THEN [status |-> 404, body |-> [html |-> TRUE]]
    ELSE LET next == handle(m, p, i + 1) IN
         CASE stack[i] = "cors" ->
                IF m = "OPTIONS" THEN [status |-> 204, body |-> [empty |-> TRUE]] ELSE next
           [] stack[i] = "health" ->
                IF m = "GET" /\ p = <<>>
                  THEN [status |-> 200, body |-> [message |-> "Tax Filing API is running!",
                                                  status |-> "healthy"]]
                ELSE IF m = "GET" /\ p = <<"health">>
                  THEN [status |-> 200, body |-> [status |-> "healthy"]]
                ELSE next
           [] stack[i] = "ready" ->
                IF underApi(p) /\ ~ready
                  THEN [status |-> 503,
                        body |-> [success |-> FALSE,
                                  message |-> "Database not ready. Please try again in a moment.",
                                  status |-> "initializing"]]
                ELSE next
           [] stack[i] = "error" -> next
           [] stack[i] = "notFound" ->
                [status |-> 404, body |-> Fail(<<"Route", m, p, "not found">>)]
           [] stack[i] \in {"auth", "dashboard"} ->
                IF mounted(p, stack[i]) THEN [status |-> 0, body |-> [router |-> stack[i]]]
                ELSE next

\* a request arrives at the app
serve(r, m, p) ==
    /\ Free(r)
    /\ req' = [req EXCEPT ![r] = [NoReq EXCEPT !.op = "request",
                                         !.body = [method |-> m, path |-> p]]]
    /\ ctx' = [ctx EXCEPT ![r] = NoCtx]
    /\ IF handle(m, p, 1).status = 0
         THEN /\ pc' = [pc EXCEPT ![r] = "router"]
              /\ resp' = [resp EXCEPT ![r] = NoResp]
         ELSE Reply(r, handle(m, p, 1).status, handle(m, p, 1).body)
    /\ UNCHANGED <<now, store, loaded, app>>

NextServer ==
    \/ initializeDatabase
    \/ initializeDatabaseCatch
    \/ \E r \in Conn, m \in Methods, p \in Paths : serve(r, m, p)

SpecServer == InitServer /\ [][NextServer]_vars

----------------------------------------------------------------------------
(* Claims about the readiness gate, under SpecServer *)

Request(r) == Arrives(r) /\ req'[r].op = "request"

C19_WitnessPreflight ==
    \E r \in Conn :
        /\ ~dbReady
        /\ req[r].op = "request" /\ req[r].body.method = "OPTIONS"
        /\ underApi(req[r].body.path) /\ resp[r].status = 204

----------------------------------------------------------------------------
(* Every route of the two routers, one request at a time *)

\* GET /me, after auth
getMe(r) ==
    /\ pc[r] = "getMe"
    /\ LET u == ctx[r].userId IN
       IF ~userExists(u)
         THEN Reply(r, 404, Fail("User not found"))
         ELSE Reply(r, 200, [success |-> TRUE, id |-> u, email |-> users[u].email,
                             firstName |-> users[u].firstName,
                             lastName |-> users[u].lastName,
                             filingStatus |-> users[u].filingStatus,
                             w9Uploaded |-> users[u].w9Uploaded,
                             w9UploadDate |-> users[u].w9UploadDate,
                             w9FileName |-> users[u].w9FileName,
                             w2Uploaded |-> users[u].w2Uploaded,
                             w2UploadDate |-> users[u].w2UploadDate,
                             w2FileName |-> users[u].w2FileName])
    /\ UNCHANGED <<now, store, req, ctx, loaded, app>>

\* PUT /me: isIn([...]) of the route's validator, and the ENUM of the column
filingStatusIsIn(v) ==
    v \in {"single", "married-joint", "married-separate", "head-of-household"}

FilingStatusEnum ==
    {"single", "married-joint", "married-separate", "head-of-household", "qualifying-widow"}

\* const { firstName, lastName, filingStatus } = req.body; updateData holds those
\* that are not undefined, the names trimmed by the validators
updateData(b) ==
    [k \in Keys(b) \cap {"firstName", "lastName", "filingStatus"} |->
        IF k \in {"firstName", "lastName"} THEN trim(b[k]) ELSE b[k]]

\* instance.update(values): the instance with the values set
withValues(row, values) ==
    [k \in DOMAIN row |-> IF k \in DOMAIN values THEN values[k] ELSE row[k]]

\* instance.update(values): an UPDATE of the columns given, of the row if it exists
SaveColumns(u, values) ==
    users' = IF u \in DOMAIN users
               THEN [users EXCEPT ![u] = withValues(@, values)]
               ELSE users

updatedUserWholeRow(id, row) ==
    [id |-> id, email |-> row.email, firstName |-> row.firstName,
     lastName |-> row.lastName, filingStatus |-> row.filingStatus,
     password |-> row.password]

\* the user PUT /me returns
updatedUser(id, row) ==
    [id |-> id, email |-> row.email, firstName |-> row.firstName,
     lastName |-> row.lastName, filingStatus |-> row.filingStatus]

\* PUT /me after auth, up to the await of user.update
updateMe(r) ==
    /\ pc[r] = "updateMe"
    /\ LET u == ctx[r].userId
           b == req[r].body IN
       IF "filingStatus" \in Keys(b) /\ ~filingStatusIsIn(b.filingStatus)
         THEN /\ Reply(r, 400, ValidationFailed)
              /\ UNCHANGED loaded
       ELSE IF ~userExists(u)
         THEN /\ Reply(r, 404, Fail("User not found"))
              /\ UNCHANGED loaded
       ELSE /\ Load(r, users[u])
            /\ pc' = [pc EXCEPT ![r] = "updateMe.update"]
            /\ UNCHANGED resp
    /\ UNCHANGED <<now, store, req, ctx, app>>

\* PUT /me from the await of user.update on
updateMeUpdate(r) ==
    /\ pc[r] = "updateMe.update"
    /\ LET values == updateData(req[r].body) IN
       /\ SaveColumns(ctx[r].userId, values)
       /\ Reply(r, 200, [success |-> TRUE, message |-> "Profile updated successfully",
                         user |-> updatedUser(ctx[r].userId,
                                              withValues(loaded[r].row, values))])
    /\ Unload(r)
    /\ UNCHANGED <<now, nextId, dependents, nextDep, w9Files, w2Files, req, ctx, app>>

ShapeSignupBodies == {[email |-> "a@x.com", password |-> Pw1], [email |-> "nope", password |-> Pw1]}
ShapeLoginBodies == {[email |-> "a@x.com", password |-> Pw1], [email |-> "a@x.com", password |-> Pw2],
                     [email |-> "a@x.com", password |-> PwEmpty]}
ShapeDependentBodies == {[name |-> "Kid", relationship |-> "child"], [name |-> ""]}
ShapeW2Bodies ==
    {[box1_wages |-> Num(70000 * 1000), password |-> Str(Pw1)], [box1_wages |-> Str("lots")]}
ShapeProfileBodies ==
    {[firstName |-> " Ann ", password |-> Pw2, email |-> "b@x.com"],
     [filingStatus |-> "bogus"]}
Shape1098Bodies == {[pointsPaid |-> Str("12")], [pointsPaid |-> Str("some")]}
ShapeFiles ==
    {NoFile} \cup OnePdf \cup
    {[present |-> TRUE, originalname |-> <<"w", ".", "e", "x", "e">>, mimetype |-> MimeExe,
      size |-> 1000, content |-> "x"]}

ShapeOps == {"profile", "getMe", "getDependents"} \cup FormOps

NextShape ==
    \/ \E r \in One, b \in ShapeSignupBodies : signupCheck(r, b)
    \/ \E r \in One : signupCreate(r)
    \/ \E r \in One, b \in ShapeLoginBodies : login(r, b)
    \/ \E r \in One, h \in Headers : auth(r, "profile", h, NoBody, 0, NoFile)
    \/ \E r \in One, h \in BearerHeaders, op \in ShapeOps : auth(r, op, h, NoBody, 0, NoFile)
    \/ \E r \in One, h \in BearerHeaders, b \in ShapeDependentBodies :
          auth(r, "addDependent", h, b, 0, NoFile)
    \/ \E r \in One, h \in BearerHeaders, d \in 1..MaxDeps :
          auth(r, "deleteDependent", h, NoBody, d, NoFile)
    \/ \E r \in One, h \in BearerHeaders, f \in ShapeFiles, op \in UploadOps :
          auth(r, op, h, NoBody, 0, f)
    \/ \E r \in One, h \in BearerHeaders, b \in ShapeW2Bodies :
          auth(r, "updateW2", h, b, 0, NoFile)
    \/ \E r \in One, h \in BearerHeaders, b \in Shape1098Bodies :
          auth(r, "update1098", h, b, 0, NoFile)
    \/ \E r \in One, h \in BearerHeaders, b \in ShapeProfileBodies :
          auth(r, "updateMe", h, b, 0, NoFile)
    \/ \E r \in One : profile(r)
    \/ \E r \in One : getMe(r)
    \/ \E r \in One : updateMe(r)
    \/ \E r \in One : updateMeUpdate(r)
    \/ \E r \in One : getDependents(r)
    \/ \E r \in One : addDependent(r)
    \/ \E r \in One : deleteDependent(r)
    \/ \E r \in One : uploadW9(r, 0)
    \/ \E r \in One : uploadW2(r, 0)
    \/ \E r \in One : extractW2(r)
    \/ \E r \in One : extractW2Update(r)
    \/ \E r \in One : getW2Data(r)
    \/ \E r \in One : updateW2(r)
    \/ \E r \in One : updateW2Update(r)
    \/ \E r \in One : generate1098(r)
    \/ \E r \in One : generate1098Update(r)
    \/ \E r \in One : get1098Data(r)
    \/ \E r \in One : update1098(r)
    \/ \E r \in One : update1098Update(r)
    \/ \E r \in One : download1098(r)

SpecShape == Init /\ [][NextShape]_vars

----------------------------------------------------------------------------
(* Claims about the shape of the responses, under SpecShape *)

\* the request on r was answered
Answered(r) == pc[r] = "done" /\ resp[r].status # 0

\* the body of the request on r fails the validators of its route
FailsValidation(r) ==
    \/ req[r].op = "updateW2" /\ invalid(req[r].body, W2Numeric)
    \/ req[r].op = "update1098" /\ invalid(req[r].body, F1098Numeric)
    \/ /\ req[r].op = "updateMe" /\ "filingStatus" \in Keys(req[r].body)
       /\ ~filingStatusIsIn(req[r].body.filingStatus)
    \/ req[r].op = "addDependent" /\ req[r].body.name = ""
    \/ req[r].op = "signup" /\ ~SignupValid(req[r].body)
    \/ req[r].op = "login" /\ ~LoginValid(req[r].body)

\* the routes whose success response has no message, and those whose success
\* response is no object with a success flag
NoMessageOps == {"profile", "getMe", "getW2Data"}
NoEnvelopeOps == {"getDependents", "download1098"}

\* C20 as stated: every response, success or failure, carries a success flag and a
\* message, and a validation failure carries a list of field errors as well.
C20_Original ==
    \A r \in Conn :
        Answered(r) =>
          /\ "success" \in DOMAIN resp[r].body
          /\ "message" \in DOMAIN resp[r].body
          /\ FailsValidation(r) => "errors" \in DOMAIN resp[r].body

\* C20 as amended: every failure response (status 400 and above) carries success
\* false and a message, and the answer to a body that fails validation is 400 with a
\* list of field errors as well; a success response carries success true and a
\* message, except that GET /profile, GET /me and GET /w2-data send no message, GET
\* /dependents sends the bare list and GET /download-1098 sends the PDF.
C20_ResponseShape ==
    \A r \in Conn :
        Answered(r) =>
          LET b == resp[r].body IN
          /\ resp[r].status >= 400 =>
                /\ "success" \in DOMAIN b /\ b.success = FALSE
                /\ "message" \in DOMAIN b
          /\ FailsValidation(r) =>
                resp[r].status = 400 /\ "errors" \in DOMAIN b
          /\ (resp[r].status < 400 /\ req[r].op \notin NoEnvelopeOps) =>
                /\ "success" \in DOMAIN b /\ b.success = TRUE
                /\ "message" \in DOMAIN b <=> req[r].op \notin NoMessageOps
          /\ (resp[r].status < 400 /\ req[r].op \in NoEnvelopeOps) =>
                /\ "success" \notin DOMAIN b
                /\ "message" \notin DOMAIN b

\* a PUT /w2-data with wages that are no number: 400 with the list of errors
C20_Witness ==
    \E r \in Conn :
        /\ Answered(r) /\ req[r].op = "updateW2" /\ FailsValidation(r)
        /\ resp[r] = [status |-> 400, body |-> ValidationFailed]
        /\ users[ctx[r].userId].income.w2Data # Undefined

\* GET /dependents of a user with a dependent: the bare list
C20_WitnessBareList ==
    \E r \in Conn :
        /\ Answered(r) /\ req[r].op = "getDependents" /\ resp[r].status = 200
        /\ DOMAIN resp[r].body = {"list"}
        /\ Len(resp[r].body.list) = 1

----------------------------------------------------------------------------
(* Claims about what the responses disclose, under SpecShape *)

\* the stored password hashes
Hashes == {users[u].password : u \in DOMAIN users}

\* the response itself, its user object or the record it echoes carries a password
\* field that holds a stored hash
Discloses(b) ==
    \/ \E k \in DOMAIN b \cap {"password"} : b[k] \in Hashes
    \/ /\ "user" \in DOMAIN b
       /\ \E k \in DOMAIN b.user \cap {"password"} : b.user[k] \in Hashes
    \/ /\ "data" \in DOMAIN b
       /\ \E k \in DOMAIN b.data \cap {"password"} :
             \E h \in Hashes : b.data[k] = Str(h)

\* C21: no response of any endpoint, after any sequence of operations (partial
\* updates with fields the route does not know included), contains a stored
\* password hash.
C21_NoPasswordInResponse ==
    \A r \in Conn : Answered(r) => ~Discloses(resp[r].body)

\* PUT /me with a password and an email in its body was answered 200 with the
\* user, and PUT /w2-data with a password field echoed that field
C21_Witness ==
    \E r \in Conn :
        /\ Answered(r) /\ req[r].op = "updateMe" /\ resp[r].status = 200
        /\ "password" \in DOMAIN req[r].body
        /\ "user" \in DOMAIN resp[r].body
        /\ resp[r].body.user.firstName = "Ann"
        /\ ctx[r].userId \in DOMAIN users
        /\ users[ctx[r].userId].password = bcryptHash(Pw1)

C21_WitnessEcho ==
    \E r \in Conn :
        /\ Answered(r) /\ req[r].op = "updateW2" /\ resp[r].status = 200
        /\ "password" \in DOMAIN resp[r].body.data
        /\ resp[r].body.data.password = Str(Pw1)

----------------------------------------------------------------------------
(* PUT /me behind the middleware *)

ProfileBodies ==
    {[firstName |-> " Ann "],
     [lastName |-> "Lee", filingStatus |-> "married-joint"],
     [filingStatus |-> "qualifying-widow"],
     [filingStatus |-> "bogus"],
     [firstName |-> "Bob", email |-> "b@x.com", password |-> Pw2, w2Uploaded |-> TRUE,
      income |-> NoIncome, deductions |-> NoDeductions]}

NextProfile ==
    \/ \E r \in One, b \in UploadSignupBodies : signupCheck(r, b)
    \/ \E r \in One : signupCreate(r)
    \/ \E r \in One, b \in UploadSignupBodies : login(r, b)
    \/ \E r \in One, h \in BearerHeaders, b \in ProfileBodies :
          auth(r, "updateMe", h, b, 0, NoFile)
    \/ \E r \in One, h \in BearerHeaders : auth(r, "getMe", h, NoBody, 0, NoFile)
    \/ \E r \in One : updateMe(r)
    \/ \E r \in One : updateMeUpdate(r)
    \/ \E r \in One : getMe(r)
    \/ \E u \in DOMAIN users : DeleteUser(u)

SpecProfile == Init /\ [][NextProfile]_vars

\* the columns PUT /me may write
Whitelist == {"firstName", "lastName", "filingStatus"}

\* PUT /me changes only firstName, lastName and filingStatus of the caller's row
ProfileFrame(r) ==
    LET u == ctx[r].userId IN
    (Steps(r, "updateMe.update") /\ u \in DOMAIN users) =>
        /\ DOMAIN users' = DOMAIN users
        /\ \A v \in DOMAIN users \ {u} : users'[v] = users[v]
        /\ \A k \in DOMAIN users[u] \ Whitelist : users'[u][k] = users[u][k]
        /\ \A k \in Whitelist :
              users'[u][k] = IF k \in Keys(req[r].body)
                               THEN updateData(req[r].body)[k]
                               ELSE users[u][k]
        /\ resp'[r].status = 200

\* a filing status outside the enumeration of the column is answered 400 and
\* nothing is stored
ProfileRejects(r) ==
    LET b == req[r].body IN
    (Steps(r, "updateMe") /\ "filingStatus" \in Keys(b)
       /\ b.filingStatus \notin FilingStatusEnum) =>
        /\ resp'[r] = [status |-> 400, body |-> ValidationFailed]
        /\ UNCHANGED store

\* a filing status of the enumeration of the column is not answered 400
ProfileAccepts(r) ==
    LET b == req[r].body IN
    (Steps(r, "updateMe") /\ "filingStatus" \in Keys(b)
       /\ b.filingStatus \in FilingStatusEnum) =>
        resp'[r].status # 400

\* C22 as stated: updateProfile changes only firstName, lastName and filingStatus,
\* whatever else the body carries; a filing status outside the enumeration is
\* rejected with 400 and no field changed; every filing status of the user model's
\* enumeration is accepted.
C22_Original ==
    [][\A r \in Conn : ProfileFrame(r) /\ ProfileRejects(r) /\ ProfileAccepts(r)]_vars

\* PUT /me with filingStatus 'qualifying-widow', a value of the column's ENUM, was
\* answered 400
C22_FailingInput ==
    \E r \in Conn :
        /\ pc[r] = "done" /\ req[r].op = "updateMe"
        /\ req[r].body = [filingStatus |-> "qualifying-widow"]
        /\ resp[r] = [status |-> 400, body |-> ValidationFailed]

----------------------------------------------------------------------------
(* Claims about the dispatch to the routers, under SpecServer *)

\* the path is a route one of the two routers defines
DefinedRoute(m, p) ==
    \/ m = "POST" /\ p = <<"api", "auth", "login">>
    \/ m = "GET" /\ p = <<"api", "dashboard", "me">>

\* C23 as stated: once initializeDatabase has completed (dbReady is true), a request
\* to a defined API route is dispatched to its router and is not answered by the 404
\* catch-all.
C23_Original ==
    [][\A r \in Conn :
        (Request(r) /\ dbReady
           /\ DefinedRoute(req'[r].body.method, req'[r].body.path)) =>
            /\ pc'[r] = "router"
            /\ resp'[r].status # 404
       ]_vars

\* after initializeDatabase completed, POST /api/auth/login was answered by the
\* catch-all registered before the routers
C23_FailingInput ==
    \E r \in Conn :
        /\ dbReady /\ dbInit = "done"
        /\ stack = <<"cors", "health", "ready", "error", "notFound", "auth", "dashboard">>
        /\ pc[r] = "done" /\ req[r].op = "request"
        /\ req[r].body = [method |-> "POST", path |-> <<"api", "auth", "login">>]
        /\ resp[r].status = 404
        /\ "message" \in DOMAIN resp[r].body

----------------------------------------------------------------------------
(* Claims about the date of birth of a dependent, under SpecDeps *)

\* C24 as stated: a date of birth supplied to add is stored on the dependent: the
\* dependent add returns, and the same dependent in a later list, carry it.
C24_Original ==
    [][\A r \in Conn :
        /\ (Finishes(r, "addDependent") /\ resp'[r].status = 201
              /\ "dob" \in DOMAIN req[r].body) =>
              /\ "dob" \in DOMAIN resp'[r].body
              /\ resp'[r].body.dob = req[r].body.dob
              /\ dependents'[resp'[r].body.id].birthDate = req[r].body.dob
        /\ Finishes(r, "getDependents") =>
              \A i \in DOMAIN resp'[r].body.list :
                 \A q \in Conn :
                    (/\ req[q].op = "addDependent" /\ resp[q].status = 201
                     /\ resp[q].body.id = resp'[r].body.list[i].id
                     /\ "dob" \in DOMAIN req[q].body) =>
                        resp'[r].body.list[i].row.birthDate = req[q].body.dob
       ]_vars

\* add with dob 2015-01-02 was answered 201 without a date of birth, and the row
\* stored has none
C24_FailingInput ==
    \E r \in Conn :
        /\ req[r].op = "addDependent" /\ pc[r] = "done"
        /\ "dob" \in DOMAIN req[r].body
        /\ req[r].body.dob = "2015-01-02"
        /\ resp[r].status = 201
        /\ "dob" \notin DOMAIN resp[r].body
        /\ resp[r].body.id \in DOMAIN dependents
        /\ dependents[resp[r].body.id].birthDate = NullStr

----------------------------------------------------------------------------
(* Claims about the addresses of the 1098 record, under SpecForms *)

\* the address objects that have a street, a city, a state and a zip
FullAddresses == {MockAddress}

hasStreetCityStateZip(a) == "str" \in DOMAIN a /\ a.str \in FullAddresses

\* C25 as stated: for every user, one who never set an address included, the
\* Form1098 generate1098 stores has a borrowerAddress and a propertyAddress that
\* each carry street, city, state and zip, from the W-2 record, else the profile,
\* else the placeholder.
C25_Original ==
    [][\A r \in Conn :
        LET u == ctx[r].userId IN
        (Steps(r, "generate1098.update") /\ u \in DOMAIN users) =>
            LET f == users'[u].deductions.form1098 IN
            /\ hasStreetCityStateZip(f.borrowerAddress)
            /\ hasStreetCityStateZip(f.propertyAddress)
       ]_vars

\* a user whose profile address is the default {}: the 1098 record stored for it
\* has the empty object as both addresses
C25_FailingInput ==
    \E u \in DOMAIN users :
        /\ users[u].address = EmptyAddress
        /\ users[u].deductions.form1098 # Undefined
        /\ users[u].income.w2Data # Undefined
        /\ users[u].income.w2Data.employeeAddress = Str(EmptyAddress)
        /\ users[u].deductions.form1098.borrowerAddress = Str(EmptyAddress)
        /\ users[u].deductions.form1098.propertyAddress = Str(EmptyAddress)

----------------------------------------------------------------------------
(* Claims about the download after updates, under SpecForms *)

\* C28 as stated: after any sequence of successful generate1098 and updateForm1098
\* calls whose bodies pass the route's validation (a numeric box sent as a numeric
\* string, for one), download-1098 answers 200 with the PDF, never a server error.
\* (The record's W-2 income is a number here: the W-2 updates are not the cause.)
C28_Original ==
    [][\A r \in Conn :
        LET u == ctx[r].userId IN
        (/\ Steps(r, "download1098") /\ u \in DOMAIN users
         /\ users[u].deductions.form1098 # Undefined
         /\ hasToFixed(users[u].deductions.form1098.calculationBasis.basedOnW2Income)) =>
            /\ resp'[r].status = 200
            /\ "contentType" \in DOMAIN resp'[r].body
       ]_vars

\* generate, then PUT /1098-data {pointsPaid: "12"} answered 200, then the download
\* answered 500
C28_FailingInput ==
    \E r \in Conn :
        LET u == ctx[r].userId IN
        /\ pc[r] = "done" /\ req[r].op = "download1098"
        /\ resp[r] = [status |-> 500, body |-> Fail("Server error generating 1098 PDF")]
        /\ u \in DOMAIN users
        /\ users[u].deductions.form1098 # Undefined
        /\ users[u].deductions.form1098.pointsPaid = Str("12")
        /\ users[u].deductions.form1098.calculationBasis.basedOnW2Income = Num(MockWages)
        /\ AllNumbers([users[u].deductions.form1098 EXCEPT !.pointsPaid = Num(0)])

----------------------------------------------------------------------------
(* database.js: connectDB, on a database that may hold rows of earlier runs *)

\* process.env.NODE_ENV
Envs == {"production", "development", "test"}

\* how an awaited call on the database ends: it resolves, or it rejects with an
\* error whose message includes 'does not exist', or with another error
Outcomes == {"ok", "does not exist", "other"}

\* the rows earlier runs left in the two tables
ExistingUsers ==
    {[i \in {} |-> 0],
     [i \in {1} |-> NewUser("a@x.com", bcryptHash(Pw1), "", "")],
     [i \in {1, 2} |-> IF i = 1 THEN NewUser("a@x.com", bcryptHash(Pw1), "", "")
                                ELSE NewUser("b@x.com", bcryptHash(Pw2), "Ann", "")]}

ExistingDependents(us) ==
    {[i \in {} |-> 0]} \cup
    {[i \in {1} |-> [userId |-> u, name |-> "Kid", relationship |-> "child",
                     ssn |-> NullStr, birthDate |-> NullStr, createdAt |-> 0]] :
       u \in DOMAIN us}

\* the process calls connectDB
InitConnect ==
    /\ now = 0
    /\ users \in ExistingUsers
    /\ nextId = Cardinality(DOMAIN users) + 1
    /\ dependents \in ExistingDependents(users)
    /\ nextDep = Cardinality(DOMAIN dependents) + 1
    /\ w9Files = {}
    /\ w2Files = {}
    /\ pc = [r \in Conn |-> "idle"]
    /\ req = [r \in Conn |-> NoReq]
    /\ ctx = [r \in Conn |-> NoCtx]
    /\ resp = [r \in Conn |-> NoResp]
    /\ loaded = [r \in Conn |-> NoRow]
    /\ dbReady = FALSE
    /\ dbInit = "connecting"
    /\ stack = <<"cors", "health", "ready", "error", "notFound">>
    /\ \E e \in Envs : db = [env |-> e, pc |-> "authenticate", error |-> "none",
                            forced |-> FALSE]

\* the catch of connectDB: where an error with this message leads
catch(msg) ==
    IF msg = "does not exist" /\ db.env = "production"
      THEN db' = [db EXCEPT !.pc = "forceSync", !.error = msg]
      ELSE db' = [db EXCEPT !.pc = "throw", !.error = msg]

\* await sequelize.authenticate()
authenticate(out) ==
    /\ db.pc = "authenticate"
    /\ IF out = "ok" THEN db' = [db EXCEPT !.pc = "sync"] ELSE catch(out)
    /\ UNCHANGED <<now, store, pc, req, ctx, resp, loaded, dbReady, dbInit, stack>>

\* await sequelize.sync({ alter: NODE_ENV === 'production', force: false }): the
\* tables are created or altered, their rows are kept
sync(out) ==
    /\ db.pc = "sync"
    /\ IF out = "ok" THEN db' = [db EXCEPT !.pc = "verify"] ELSE catch(out)
    /\ UNCHANGED <<now, store, pc, req, ctx, resp, loaded, dbReady, dbInit, stack>>

\* the two SELECT COUNT(*) queries, on "Users" and on "Dependents"
verify(out) ==
    /\ db.pc = "verify"
    /\ IF out = "ok" THEN db' = [db EXCEPT !.pc = "return"] ELSE catch(out)
    /\ UNCHANGED <<now, store, pc, req, ctx, resp, loaded, dbReady, dbInit, stack>>

\* await sequelize.sync({ force: true }): DROP TABLE IF EXISTS of each table, then
\* CREATE TABLE; when it rejects, the tables dropped before the error are gone
forceSync(out, dropped) ==
    /\ db.pc = "forceSync"
    /\ out \in {"ok"} => dropped
    /\ db' = [db EXCEPT !.pc = IF out = "ok" THEN "return" ELSE "throw",
                        !.error = IF out = "ok" THEN @ ELSE out,
                        !.forced = TRUE]
    /\ IF dropped
         THEN /\ users' = [i \in {} |-> 0]
              /\ dependents' = [i \in {} |-> 0]
         ELSE UNCHANGED <<users, dependents>>
    /\ UNCHANGED <<now, nextId, nextDep, w9Files, w2Files, pc, req, ctx, resp, loaded,
                   dbReady, dbInit, stack>>

NextConnect ==
    \/ \E out \in Outcomes : authenticate(out)
    \/ \E out \in Outcomes : sync(out)
    \/ \E out \in Outcomes : verify(out)
    \/ \E out \in Outcomes, dropped \in BOOLEAN : forceSync(out, dropped)

SpecConnect == InitConnect /\ [][NextConnect]_vars

\* C26 as stated: connectDB never runs a schema synchronisation with force: true
\* when the environment is production, on any path, its error recovery included,
\* so no existing table is dropped and recreated.
C26_Original ==
    [][db.env = "production" =>
          /\ ~db'.forced
          /\ users' = users
          /\ dependents' = dependents]_vars

\* in production, a 'does not exist' error of the verifying queries led to the
\* force sync, which dropped the rows of both tables
C26_FailingInput ==
    /\ db.env = "production"
    /\ db.forced
    /\ db.pc = "return"
    /\ db.error = "does not exist"
    /\ users = [i \in {} |-> 0]
    /\ nextId = 3

----------------------------------------------------------------------------
(* Claims about interleaved signups, under SpecSignup *)

\* C27 as stated: when two signups for one email interleave so that both existence
\* checks run before either user is created, at most one row with that email
\* exists afterwards, one request is answered 201 and the other is rejected with
\* 400 (duplicate email).
C27_Original ==
    [][\A r \in Conn :
        Finishes(r, "signup") =>
          /\ \A u, v \in DOMAIN users' : users'[u].email = users'[v].email => u = v
          /\ IF findByEmail(req[r].body.email) = {}
               THEN resp'[r].status = 201
               ELSE /\ resp'[r] = [status |-> 400,
                                   body |-> Fail("User with this email already exists")]
                    /\ users' = users
       ]_vars

\* two signups for a@x.com passed the existence check; one was answered 201, the
\* other 500, and one row holds the email
C27_FailingInput ==
    \E r, q \in Conn :
        /\ r # q
        /\ req[r].op = "signup" /\ req[q].op = "signup"
        /\ req[r].body.email = req[q].body.email
        /\ pc[r] = "done" /\ pc[q] = "done"
        /\ resp[r].status = 201
        /\ resp[q] = [status |-> 500, body |-> Fail("Server error during registration")]
        /\ Cardinality(findByEmail(req[r].body.email)) = 1

----------------------------------------------------------------------------
(* Claims about the chain of derived records, under SpecShape *)

\* C29: in every state the uploads, extractions, updates and generations reach, for
\* every user: a 1098 record exists only if a W-2 record exists, a W-2 record exists
\* only if a W-2 file name is on record, and w2Uploaded (w9Uploaded) is true only if
\* w2FileName (w9FileName) is the name of a file written to uploads/w2-forms
\* (uploads/w9-forms).
C29_DerivedDataChain ==
    \A u \in DOMAIN users :
        /\ users[u].deductions.form1098 # Undefined => users[u].income.w2Data # Undefined
        /\ users[u].income.w2Data # Undefined => users[u].w2FileName # <<>>
        /\ users[u].w2Uploaded =>
              /\ users[u].w2FileName # <<>>
              /\ users[u].w2FileName \in Names(w2Files)
        /\ users[u].w9Uploaded =>
              /\ users[u].w9FileName # <<>>
              /\ users[u].w9FileName \in Names(w9Files)

\* a user with both uploads, an extracted and updated W-2 record and a generated
\* and updated 1098 record
C29_Witness ==
    \E u \in DOMAIN users :
        /\ users[u].w2Uploaded /\ users[u].w9Uploaded
        /\ users[u].w2FileName \in Names(w2Files)
        /\ users[u].w9FileName \in Names(w9Files)
        /\ users[u].income.w2Data # Undefined
        /\ "lastModified" \in DOMAIN users[u].income.w2Data
        /\ users[u].deductions.form1098 # Undefined
        /\ "lastModified" \in DOMAIN users[u].deductions.form1098

====
